---- MODULE Spec2Model ----
(***************************************************************************)
(* Rendezvous server of alaric: one task per accepted connection          *)
(* (handle_connection -> handle_agent | handle_client), sharing the agent  *)
(* registry (RwLock<HashMap<AgentId, oneshot::Sender<TcpStream>>>) and the *)
(* session counter (AtomicU64).  A step of the model is the code between   *)
(* two suspension points of a handler, or one atomic operation on shared   *)
(* state.                                                                  *)
(***************************************************************************)
EXTENDS Integers, Sequences, FiniteSets, TLC

\* ------------------------------------------------------------------ bounds
MaxConn == 3
MaxBytes == 2
RelayConn == 3
MaxAcceptErrors == 1
MaxAttempts == 3
MaxReads == 2
MaxSends == 3
MaxFrames == 2
MaxForged == 1
MaxCalls == 2

\* --------------------------------------------------------------- constants
PROTOCOL_VERSION == 1
MAX_FRAME_BYTES == 65536
MIN_ID_LEN == 3
MAX_ID_LEN == 64
RETRY_DELAY_SECS == 1
SEND_INTERVAL_SECS == 1

Conn == 1..MaxConn
NoConn == 0
RxClosed == 0 - 1

\* ------------------------------------------------------------- identifiers
\* Ids are byte strings, written as sequences of byte values.
IdA == <<97, 45, 49>>
IdB == <<97, 45, 50>>
IdShort == <<97, 49>>
IdSpace == <<97, 32, 49>>
IdClient == <<99, 45, 49>>
NoId == <<>>

is_ascii_alphanumeric(b) ==
    \/ (48 <= b /\ b <= 57)
    \/ (65 <= b /\ b <= 90)
    \/ (97 <= b /\ b <= 122)

validate_id_any_length(value) ==
    \A i \in 1..Len(value) : is_ascii_alphanumeric(value[i]) \/ value[i] \in {45, 95, 46}

\* lib/src/types/ids.rs lines 31-54.
validate_id(value) ==
    /\ MIN_ID_LEN <= Len(value)
    /\ Len(value) <= MAX_ID_LEN
    /\ \A i \in 1..Len(value) :
          is_ascii_alphanumeric(value[i]) \/ value[i] \in {45, 95, 46}

\* The ids that can key the registry in this model: agents register as IdA,
\* clients ask for IdA or for IdB, which no agent ever registers.
AgentIds == {IdA, IdB}

\* ------------------------------------------------------------ first frame
\* What the peer puts on the wire before the server answers: hdr = the four
\* length bytes arrive, len = the declared length, avail = payload bytes that
\* arrive before EOF, json = the payload is a well-formed request object.
Frame(hdr, len, avail, json, role, ver, aid, cid, tid) ==
    [hdr |-> hdr, len |-> len, avail |-> avail, json |-> json, role |-> role,
     protocol_version |-> ver, agent_id |-> aid, client_id |-> cid,
     target_agent_id |-> tid]

AgentFrame(ver, aid) == Frame(TRUE, 80, 80, TRUE, "agent", ver, aid, NoId, NoId)
ClientFrame(ver, tid) == Frame(TRUE, 90, 90, TRUE, "client", ver, NoId, IdClient, tid)

Frames ==
    { Frame(FALSE, 0, 0, FALSE, "agent", 1, NoId, NoId, NoId),
      Frame(TRUE, MAX_FRAME_BYTES + 1, 0, TRUE, "agent", 1, IdA, NoId, NoId),
      Frame(TRUE, 80, 40, TRUE, "agent", 1, IdA, NoId, NoId),
      Frame(TRUE, 80, 80, FALSE, "agent", 1, IdA, NoId, NoId),
      AgentFrame(1, IdShort), ClientFrame(1, IdSpace),
      AgentFrame(1, IdA), AgentFrame(2, IdA),
      ClientFrame(1, IdA), ClientFrame(1, IdB), ClientFrame(0, IdA) }

NoRequest == [role |-> "none", protocol_version |-> 0, agent_id |-> NoId]

\* Result of read_json_frame::<_, HandshakeRequest>: err = "none" and the
\* request, or the ProtocolError variant.  agent_id of a client request is its
\* target_agent_id.
read_json_frame(f) ==
    IF ~f.hdr THEN [err |-> "io", request |-> NoRequest]
    ELSE IF f.len > MAX_FRAME_BYTES THEN [err |-> "frame_too_large", request |-> NoRequest]
    ELSE IF f.avail < f.len THEN [err |-> "io", request |-> NoRequest]
    ELSE IF ~f.json THEN [err |-> "json", request |-> NoRequest]
    ELSE IF f.role = "agent" /\ ~validate_id(f.agent_id)
        THEN [err |-> "json", request |-> NoRequest]
    ELSE IF f.role = "client" /\ ~(validate_id(f.client_id) /\ validate_id(f.target_agent_id))
        THEN [err |-> "json", request |-> NoRequest]
    ELSE [err |-> "none",
          request |-> [role |-> f.role, protocol_version |-> f.protocol_version,
                       agent_id |-> IF f.role = "agent" THEN f.agent_id
                                    ELSE f.target_agent_id]]

\* --------------------------------------------------------------- responses
Accepted(sid) == [status |-> "accepted", session_id |-> sid, code |-> "none"]
Rejected(code) == [status |-> "rejected", session_id |-> 0, code |-> code]

\* ------------------------------------------------------------------- state
VARIABLES
    pc,            \* per connection: the suspension point its handler is at
    request,       \* per connection: the parsed handshake request
    read_err,      \* per connection: the error of read_json_frame, or "none"
    agents,        \* registry: AgentId -> connection whose tx it holds, or NoConn
    lock,          \* holder of the registry write-lock, or NoConn
    sessions,      \* the AtomicU64 session counter
    session_id,    \* per connection: the id next_session_id returned, or 0
    agent_waiter,  \* per client connection: the tx it took out of the registry
    rx,            \* per agent connection: NoConn pending, RxClosed, or the client stream sent
    client_stream, \* per agent connection: the client stream it splices
    result,        \* per connection: "none" while running, then "ok" or "err"
    attempted,     \* per connection: responses the server tried to write
    wire,          \* per connection: responses actually written
    wire_log,      \* session ids of accepted responses in the order written
    alloc_log,     \* values returned by next_session_id in call order
    pre_entry,     \* per connection: registry entry just before its own mutation
    claimed,       \* per client connection: the registration it took, or NoConn
    exit_via,      \* per agent connection: the select branch or splice it left by
    written,       \* per connection: bytes its peer wrote after its handshake request
    read_pos,      \* per connection: how many of them the server has read
    delivered,     \* per connection: bytes the server wrote to it after its response
    accept_loop,   \* run_until: "start", "running", "returned_ok" or "returned_err"
    shutdown,      \* run_until: the shutdown future has completed
    accept_errors, \* run_until: errors of listener.accept() logged so far
    drv_pc,        \* agent driver: the await it is suspended at
    drv_agent_id,  \* agent driver: the AgentId built at line 15
    drv_shutdown,  \* agent driver: the shutdown signal has fired
    drv_attempts,  \* agent driver: connects started so far
    drv_timer,     \* agent driver: seconds left of the retry sleep
    drv_last,      \* agent driver: how the last finished attempt ended
    drv_out,       \* agent driver: frames written on the current connection
    drv_in,        \* agent driver: chunks of the current connection taken as application data
    drv_connected, \* agent driver: connection_loop owns an open TcpStream
    drv_result,    \* agent driver: what run returned, or "none"
    client,        \* client driver: the locals of client::app::run and what it did
    fr,            \* framing: a byte stream, its writer and its reader
    sec,           \* secure channel: the Noise XX initiator "i" and responder "r"
    idv,           \* identifiers: the last AgentId or ClientId asked for and its use
    tun            \* tunnel: one copy_bidirectional between an agent and a client

relayVars == <<written, read_pos, delivered>>
loopVars == <<accept_loop, shutdown, accept_errors>>
driverVars == <<drv_pc, drv_agent_id, drv_shutdown, drv_attempts, drv_timer, drv_last,
                drv_out, drv_in, drv_connected, drv_result>>
serverVars == <<pc, request, read_err, agents, lock, sessions, session_id, agent_waiter,
                rx, client_stream, result, attempted, wire, wire_log, alloc_log,
                pre_entry, claimed, exit_via>>

endpointVars == <<client, fr, sec, idv, tun>>

vars == <<serverVars, relayVars, loopVars, driverVars, endpointVars>>

\* ServerState::new() and the connections not yet accepted.
ServerInit ==
    /\ pc = [c \in Conn |-> "idle"]
    /\ request = [c \in Conn |-> NoRequest]
    /\ read_err = [c \in Conn |-> "none"]
    /\ agents = [a \in AgentIds |-> NoConn]
    /\ lock = NoConn
    /\ sessions = 1
    /\ session_id = [c \in Conn |-> 0]
    /\ agent_waiter = [c \in Conn |-> NoConn]
    /\ rx = [c \in Conn |-> NoConn]
    /\ client_stream = [c \in Conn |-> NoConn]
    /\ result = [c \in Conn |-> "none"]
    /\ attempted = [c \in Conn |-> <<>>]
    /\ wire = [c \in Conn |-> <<>>]
    /\ wire_log = <<>>
    /\ alloc_log = <<>>
    /\ pre_entry = [c \in Conn |-> NoConn]
    /\ claimed = [c \in Conn |-> NoConn]
    /\ exit_via = [c \in Conn |-> "none"]
    /\ written = [c \in Conn |-> <<>>]
    /\ read_pos = [c \in Conn |-> 0]
    /\ delivered = [c \in Conn |-> <<>>]

\* The agent driver process before run() is entered.
DriverIdle ==
    /\ drv_pc = "start"
    /\ drv_agent_id = NoId
    /\ drv_shutdown = FALSE
    /\ drv_attempts = 0
    /\ drv_timer = 0
    /\ drv_last = "none"
    /\ drv_out = <<>>
    /\ drv_in = <<>>
    /\ drv_connected = FALSE
    /\ drv_result = "none"

\* The client driver process before run() is entered.
ClientIdle ==
    [pc |-> "start", client_id |-> NoId, target_agent_id |-> NoId, shutdown |-> FALSE,
     connects |-> 0, requests |-> 0, sends |-> 0, noise |-> <<>>, timer |-> 0,
     result |-> "none", fail |-> "none"]

\* An open stream on which nothing has been written or read.
FrameIdle ==
    [stream |-> <<>>, closed |-> FALSE, writes |-> 0, w_len |-> 0, w_err |-> "none",
     sent |-> <<>>, reads |-> 0, payload |-> <<>>, r_err |-> "none", consumed |-> 0]

NoErr == [kind |-> "none", step |-> "none", expected |-> 0, got |-> 0]

\* One end of a stream before its handshake function is called: the bytes
\* waiting to be read, the lengths of the frames it wrote, the lengths of
\* the buffers it passed to recv_message, the error its call returned, the
\* nonces of its two ciphers, the calls of send and recv, the plaintext
\* length it last gave to send, the plaintext recv last returned, and the
\* phase its session reports.
SecureEnd(at) ==
    [pc |-> at, inbox |-> <<>>, forged |-> 0, wrote |-> <<>>, recv |-> <<>>, err |-> NoErr,
     send_n |-> 0, recv_n |-> 0, calls |-> 0, pt_len |-> 0, got |-> <<>>,
     phase |-> "handshake"]

SecureIdle == [e \in {"i", "r"} |-> SecureEnd(IF e = "i" THEN "start" ELSE "message_a")]

\* No identifier has been asked for.
IdIdle ==
    [kind |-> "none", via |-> "none", text |-> <<>>, is_string |-> TRUE, ok |-> FALSE,
     id |-> NoId, op |-> "none"]

\* A tunnel at the call of copy_bidirectional: per direction the bytes the
\* peer has written and not yet been relayed, whether the peer has closed
\* its sending side, the bytes relayed, and whether the direction has
\* finished; the bytes relayed after the other direction had finished;
\* whether a socket has failed; and what the call returned.
Dir == {"agent_to_client", "client_to_agent"}

TunnelIdle ==
    [pending |-> [d \in Dir |-> 0], fin |-> [d \in Dir |-> FALSE],
     copied |-> [d \in Dir |-> 0], done |-> [d \in Dir |-> FALSE],
     shut |-> [d \in Dir |-> FALSE], late |-> 0, broken |-> FALSE,
     result |-> "none", streams_open |-> TRUE, entry |-> TRUE]

\* The client and the protocol endpoints of lib before they are used.
EndpointIdle ==
    /\ client = ClientIdle
    /\ fr = FrameIdle
    /\ sec = SecureIdle
    /\ idv = IdIdle
    /\ tun = TunnelIdle

\* The server of run(listener): run_until with a shutdown future that never
\* completes, inside its accept loop.
Init ==
    /\ ServerInit
    /\ accept_loop = "running"
    /\ shutdown = FALSE
    /\ accept_errors = 0
    /\ DriverIdle
    /\ EndpointIdle

\* ----------------------------------------------------------------- helpers
next_session_id_no_increment(cur) == [ret |-> cur, new |-> cur]

\* ServerState::next_session_id: fetch_add(1) returns the previous value.
next_session_id(cur) == [ret |-> cur, new |-> cur + 1]

\* Dropping a oneshot::Sender that was never used closes the channel.
drop_tx(r, w) == IF w # NoConn /\ r[w] = NoConn THEN [r EXCEPT ![w] = RxClosed] ELSE r

\* HashMap::remove / HashMap::insert on the registry.
registry_remove(reg, id) == [reg EXCEPT ![id] = NoConn]
registry_insert(reg, id, w) == [reg EXCEPT ![id] = w]

\* A handler returns: its rx (and any client stream still inside it) is dropped.
Return(c, res) ==
    /\ pc' = [pc EXCEPT ![c] = "done"]
    /\ result' = [result EXCEPT ![c] = res]

\* write_json_frame of a response; ok = the write and flush succeed.
Send(c, resp, ok) ==
    /\ attempted' = [attempted EXCEPT ![c] = Append(@, resp)]
    /\ wire' = [wire EXCEPT ![c] = IF ok THEN Append(@, resp) ELSE @]
    /\ wire_log' = IF ok /\ resp.status = "accepted"
                      THEN Append(wire_log, resp.session_id) ELSE wire_log

PROTOCOL_VERSION_at_least(v) == v >= PROTOCOL_VERSION

\* Line 37: request.protocol_version() != PROTOCOL_VERSION, negated.
PROTOCOL_VERSION_supported(v) == v = PROTOCOL_VERSION

\* Connections are interchangeable and the accept of one touches nothing
\* shared, so they are numbered in the order of the kind of their first
\* frame: one representative of every permutation of the same arrivals.
Rank(err, req) ==
    IF err = "none" /\ req.role = "none" THEN 0
    ELSE IF err = "io" THEN 1
    ELSE IF err = "frame_too_large" THEN 2
    ELSE IF err = "json" THEN 3
    ELSE IF ~PROTOCOL_VERSION_supported(req.protocol_version)
        THEN (IF req.role = "agent" THEN 4 ELSE 5)
    ELSE IF req.role = "agent" THEN 6
    ELSE (IF req.agent_id = IdA THEN 7 ELSE 8)

\* ------------------------------------------------------- handle_connection
\* accept_loop.rs lines 26-35: accept of the next connection, spawn of its
\* handler, and the read of its first frame, up to the first suspension point
\* after it.  peer_ok = stream.peer_addr() succeeds
\* (line 22); when it fails the handler returns the error at once.
handle_connection(c, f, peer_ok) ==
    /\ accept_loop = "running"
    /\ pc[c] = "idle"
    /\ \A d \in Conn : d < c => pc[d] # "idle"
    /\ LET r == IF peer_ok THEN read_json_frame(f)
                ELSE [err |-> "none", request |-> NoRequest] IN
        /\ c > 1 => Rank(r.err, r.request) >= Rank(read_err[c - 1], request[c - 1])
        /\ read_err' = [read_err EXCEPT ![c] = r.err]
        /\ request' = [request EXCEPT ![c] = r.request]
        /\ pc' = [pc EXCEPT ![c] =
                IF ~peer_ok THEN "done"
                ELSE IF r.err # "none" THEN "reject_invalid"
                ELSE IF ~PROTOCOL_VERSION_supported(r.request.protocol_version)
                    THEN "reject_version"
                ELSE IF r.request.role = "agent" THEN "agent_lock"
                ELSE "client_lock"]
        /\ result' = [result EXCEPT ![c] = IF peer_ok THEN "none" ELSE "err"]
    /\ UNCHANGED <<exit_via, relayVars, loopVars, driverVars, endpointVars>>
    /\ UNCHANGED <<agents, lock, sessions, session_id, agent_waiter, rx, client_stream,
                   attempted, wire, wire_log, alloc_log, pre_entry, claimed>>

invalid_request_result_propagated(ok) == IF ok THEN "ok" ELSE "err"

\* Lines 27-33: `let _ = send_reject(..).await; return Ok(())`.
invalid_request_result(ok) == "ok"

reject_invalid(c, ok) ==
    /\ pc[c] = "reject_invalid"
    /\ Send(c, Rejected("invalid_request"), ok)
    /\ Return(c, invalid_request_result(ok))
    /\ UNCHANGED <<exit_via, relayVars, loopVars, driverVars, endpointVars>>
    /\ UNCHANGED <<request, read_err, agents, lock, sessions, session_id, agent_waiter,
                   rx, client_stream, alloc_log, pre_entry, claimed>>

\* Lines 38-48: `send_reject(..).await?; return Ok(())`.
reject_version(c, ok) ==
    /\ pc[c] = "reject_version"
    /\ Send(c, Rejected("unsupported_protocol_version"), ok)
    /\ Return(c, IF ok THEN "ok" ELSE "err")
    /\ UNCHANGED <<exit_via, relayVars, loopVars, driverVars, endpointVars>>
    /\ UNCHANGED <<request, read_err, agents, lock, sessions, session_id, agent_waiter,
                   rx, client_stream, alloc_log, pre_entry, claimed>>

\* ------------------------------------------------------------ handle_agent
registry_contains_key_never(reg, id) == FALSE

\* Line 72.
registry_contains_key(reg, id) == reg[id] # NoConn

\* Lines 71-86: take the write-lock, reject a duplicate id while still
\* holding the guard, else insert the fresh tx and release.
agent_register(c) ==
    /\ pc[c] = "agent_lock"
    /\ lock = NoConn
    /\ LET id == request[c].agent_id IN
        IF registry_contains_key(agents, id)
        THEN /\ lock' = c
             /\ pc' = [pc EXCEPT ![c] = "agent_send_reject"]
             /\ pre_entry' = [pre_entry EXCEPT ![c] = agents[id]]
             /\ UNCHANGED <<agents, rx>>
        ELSE /\ agents' = registry_insert(agents, id, c)
             /\ rx' = drop_tx(rx, agents[id])
             /\ pre_entry' = [pre_entry EXCEPT ![c] = agents[id]]
             /\ pc' = [pc EXCEPT ![c] = "agent_next_session_id"]
             /\ UNCHANGED lock
    /\ UNCHANGED <<exit_via, relayVars, loopVars, driverVars, endpointVars>>
    /\ UNCHANGED <<request, read_err, sessions, session_id, agent_waiter, client_stream,
                   result, attempted, wire, wire_log, alloc_log, claimed>>

\* Lines 73-83: the rejection is written under the registry guard, which is
\* released when the handler returns.
agent_send_reject(c, ok) ==
    /\ pc[c] = "agent_send_reject"
    /\ Send(c, Rejected("agent_id_in_use"), ok)
    /\ lock' = NoConn
    /\ Return(c, IF ok THEN "ok" ELSE "err")
    /\ UNCHANGED <<exit_via, relayVars, loopVars, driverVars, endpointVars>>
    /\ UNCHANGED <<request, read_err, agents, sessions, session_id, agent_waiter,
                   rx, client_stream, alloc_log, pre_entry, claimed>>

\* Line 88 and line 178.
alloc_session_id(c, next) ==
    /\ LET r == next_session_id(sessions) IN
        /\ session_id' = [session_id EXCEPT ![c] = r.ret]
        /\ sessions' = r.new
        /\ alloc_log' = Append(alloc_log, r.ret)
    /\ pc' = [pc EXCEPT ![c] = next]
    /\ UNCHANGED <<exit_via, relayVars, loopVars, driverVars, endpointVars>>
    /\ UNCHANGED <<request, read_err, agents, lock, agent_waiter, rx, client_stream,
                   result, attempted, wire, wire_log, pre_entry, claimed>>

agent_next_session_id(c) ==
    /\ pc[c] = "agent_next_session_id"
    /\ alloc_session_id(c, "agent_send_accept")

after_agent_accept_rejects(ok) == IF ok THEN "agent_select" ELSE "agent_send_reject"

\* Lines 89-92: `if let Err(err) = send_accept(..).await { remove; return Err }`.
after_agent_accept(ok) == IF ok THEN "agent_select" ELSE "agent_rollback"

\* Line 89: send_accept; a failure leads to the rollback at line 90.
agent_send_accept(c, ok) ==
    /\ pc[c] = "agent_send_accept"
    /\ Send(c, Accepted(session_id[c]), ok)
    /\ pc' = [pc EXCEPT ![c] = after_agent_accept(ok)]
    /\ UNCHANGED <<exit_via, relayVars, loopVars, driverVars, endpointVars>>
    /\ UNCHANGED <<request, read_err, agents, lock, sessions, session_id, agent_waiter,
                   rx, client_stream, result, alloc_log, pre_entry, claimed>>

agent_registry_kept(reg, id) == reg

\* state.agents.write().await.remove(&agent_id): removes, and drops, whatever
\* tx is stored under the id.
agent_registry_after_exit(reg, id) == registry_remove(reg, id)

remove_and_return(c, res) ==
    /\ lock = NoConn
    /\ LET id == request[c].agent_id IN
        /\ agents' = agent_registry_after_exit(agents, id)
        /\ rx' = IF agents'[id] = NoConn THEN drop_tx(rx, agents[id]) ELSE rx
    /\ Return(c, res)
    /\ UNCHANGED <<exit_via, relayVars, loopVars, driverVars, endpointVars>>
    /\ UNCHANGED <<request, read_err, lock, sessions, session_id, agent_waiter,
                   client_stream, attempted, wire, wire_log, alloc_log, pre_entry, claimed>>

\* Lines 90-91.
agent_rollback(c) ==
    /\ pc[c] = "agent_rollback"
    /\ remove_and_return(c, "err")

select_matched_read_pos_probe_lost(pos, avail) == IF avail > pos THEN pos + 1 ELSE pos

\* Lines 99-102: when the rx branch wins, the pending stream.read(&mut probe)
\* is dropped without having taken a byte off the agent socket.
select_matched_read_pos(pos, avail) == pos

\* Lines 99-102: the select's rx branch yields the client stream.
agent_select_matched(c) ==
    /\ pc[c] = "agent_select"
    /\ rx[c] \in Conn
    /\ client_stream' = [client_stream EXCEPT ![c] = rx[c]]
    /\ pc' = [pc EXCEPT ![c] = "splice"]
    /\ read_pos' = [read_pos EXCEPT ![c] = select_matched_read_pos(@, Len(written[c]))]
    /\ UNCHANGED <<exit_via, written, delivered, loopVars, driverVars, endpointVars>>
    /\ UNCHANGED <<request, read_err, agents, lock, sessions, session_id, agent_waiter,
                   rx, result, attempted, wire, wire_log, alloc_log, pre_entry, claimed>>

\* Lines 103-110: the tx was dropped unused.
agent_select_closed(c) ==
    /\ pc[c] = "agent_select"
    /\ rx[c] = RxClosed
    /\ pc' = [pc EXCEPT ![c] = "agent_remove"]
    /\ exit_via' = [exit_via EXCEPT ![c] = "closed"]
    /\ UNCHANGED <<relayVars, loopVars, driverVars, endpointVars>>
    /\ UNCHANGED <<request, read_err, agents, lock, sessions, session_id, agent_waiter,
                   rx, client_stream, result, attempted, wire, wire_log, alloc_log,
                   pre_entry, claimed>>

\* Lines 113-133: the agent socket yields data (one byte goes into probe),
\* EOF or an error; the peer can cause this at any time, also when rx is
\* ready (select picks either).
agent_select_probe(c) ==
    /\ pc[c] = "agent_select"
    /\ pc' = [pc EXCEPT ![c] = "agent_remove"]
    /\ exit_via' = [exit_via EXCEPT ![c] = "probe"]
    /\ read_pos' = [read_pos EXCEPT ![c] = IF Len(written[c]) > @ THEN @ + 1 ELSE @]
    /\ UNCHANGED <<written, delivered, loopVars, driverVars, endpointVars>>
    /\ UNCHANGED <<request, read_err, agents, lock, sessions, session_id, agent_waiter,
                   rx, client_stream, result, attempted, wire, wire_log, alloc_log,
                   pre_entry, claimed>>

\* Lines 140-150: copy_bidirectional ends with byte counts or an error.
splice_end(c) ==
    /\ pc[c] = "splice"
    /\ pc' = [pc EXCEPT ![c] = "agent_remove"]
    /\ exit_via' = [exit_via EXCEPT ![c] = "splice"]
    /\ UNCHANGED <<relayVars, loopVars, driverVars, endpointVars>>
    /\ UNCHANGED <<request, read_err, agents, lock, sessions, session_id, agent_waiter,
                   rx, client_stream, result, attempted, wire, wire_log, alloc_log,
                   pre_entry, claimed>>

\* Lines 104, 134 and 152, each followed by return Ok(()).
agent_remove(c) ==
    /\ pc[c] = "agent_remove"
    /\ remove_and_return(c, "ok")

\* ----------------------------------------------------------- handle_client
claim_take_peek(reg, id) == reg

\* The registry after line 164 found an entry: the entry is taken out.
claim_take(reg, id) == registry_remove(reg, id)

\* Line 164: remove under the write-lock; the guard is a temporary of the
\* let-else initializer and is released before the else block runs.
client_claim(c) ==
    /\ pc[c] = "client_lock"
    /\ lock = NoConn
    /\ LET id == request[c].agent_id
           w == agents[id] IN
        /\ pre_entry' = [pre_entry EXCEPT ![c] = w]
        /\ IF w = NoConn
           THEN /\ pc' = [pc EXCEPT ![c] = "client_send_reject"]
                /\ UNCHANGED <<agents, agent_waiter, claimed>>
           ELSE /\ agents' = claim_take(agents, id)
                /\ agent_waiter' = [agent_waiter EXCEPT ![c] = w]
                /\ claimed' = [claimed EXCEPT ![c] = w]
                /\ pc' = [pc EXCEPT ![c] = "client_next_session_id"]
    /\ UNCHANGED <<exit_via, relayVars, loopVars, driverVars, endpointVars>>
    /\ UNCHANGED <<request, read_err, lock, sessions, session_id, rx, client_stream,
                   result, attempted, wire, wire_log, alloc_log>>

missing_target_code_internal == "internal_error"

\* Line 167: HandshakeErrorCode::AgentUnavailable.
missing_target_code == "agent_unavailable"

\* Lines 165-175.
client_send_reject(c, ok) ==
    /\ pc[c] = "client_send_reject"
    /\ Send(c, Rejected(missing_target_code), ok)
    /\ Return(c, IF ok THEN "ok" ELSE "err")
    /\ UNCHANGED <<exit_via, relayVars, loopVars, driverVars, endpointVars>>
    /\ UNCHANGED <<request, read_err, agents, lock, sessions, session_id, agent_waiter,
                   rx, client_stream, alloc_log, pre_entry, claimed>>

client_next_session_id(c) ==
    /\ pc[c] = "client_next_session_id"
    /\ alloc_session_id(c, "client_send_accept")

\* Line 179.
client_send_accept(c, ok) ==
    /\ pc[c] = "client_send_accept"
    /\ Send(c, Accepted(session_id[c]), ok)
    /\ pc' = [pc EXCEPT ![c] = IF ok THEN "client_handoff" ELSE "client_rollback"]
    /\ UNCHANGED <<exit_via, relayVars, loopVars, driverVars, endpointVars>>
    /\ UNCHANGED <<request, read_err, agents, lock, sessions, session_id, agent_waiter,
                   rx, client_stream, result, alloc_log, pre_entry, claimed>>

client_registry_no_rollback(reg, id, w) == reg

\* The registry after the rollback of lines 180-184.
client_registry_after_rollback(reg, id, w) == registry_insert(reg, id, w)

\* Lines 180-185: the taken tx goes back under its key; a tx that another
\* agent stored there meanwhile is replaced and dropped.
client_rollback(c) ==
    /\ pc[c] = "client_rollback"
    /\ lock = NoConn
    /\ LET id == request[c].agent_id
           w == agent_waiter[c] IN
        /\ agents' = client_registry_after_rollback(agents, id, w)
        /\ rx' = IF agents'[id] # agents[id] THEN drop_tx(rx, agents[id]) ELSE rx
    /\ agent_waiter' = [agent_waiter EXCEPT ![c] = NoConn]
    /\ Return(c, "err")
    /\ UNCHANGED <<exit_via, relayVars, loopVars, driverVars, endpointVars>>
    /\ UNCHANGED <<request, read_err, lock, sessions, session_id, client_stream,
                   attempted, wire, wire_log, alloc_log, pre_entry, claimed>>

oneshot_send_lost(r, w, c, alive) == r

\* Line 193: agent_waiter.send(stream) puts the stream into the channel when
\* the receiver is alive, and gives it back otherwise.
oneshot_send(r, w, c, alive) == IF alive THEN [r EXCEPT ![w] = c] ELSE r

\* Lines 193-201: oneshot send; it fails when the receiver is gone, and the
\* client stream is then dropped.
client_handoff(c) ==
    /\ pc[c] = "client_handoff"
    /\ LET w == agent_waiter[c] IN
        rx' = oneshot_send(rx, w, c, pc[w] # "done")
    /\ agent_waiter' = [agent_waiter EXCEPT ![c] = NoConn]
    /\ Return(c, "ok")
    /\ UNCHANGED <<exit_via, relayVars, loopVars, driverVars, endpointVars>>
    /\ UNCHANGED <<request, read_err, agents, lock, sessions, session_id, client_stream,
                   attempted, wire, wire_log, alloc_log, pre_entry, claimed>>

\* ------------------------------------------------------------ specification
Next ==
    \/ \E c \in Conn, f \in Frames, peer_ok \in BOOLEAN : handle_connection(c, f, peer_ok)
    \/ \E c \in Conn, ok \in BOOLEAN : reject_invalid(c, ok)
    \/ \E c \in Conn, ok \in BOOLEAN : reject_version(c, ok)
    \/ \E c \in Conn : agent_register(c)
    \/ \E c \in Conn, ok \in BOOLEAN : agent_send_reject(c, ok)
    \/ \E c \in Conn : agent_next_session_id(c)
    \/ \E c \in Conn, ok \in BOOLEAN : agent_send_accept(c, ok)
    \/ \E c \in Conn : agent_rollback(c)
    \/ \E c \in Conn : agent_select_matched(c)
    \/ \E c \in Conn : agent_select_closed(c)
    \/ \E c \in Conn : agent_select_probe(c)
    \/ \E c \in Conn : splice_end(c)
    \/ \E c \in Conn : agent_remove(c)
    \/ \E c \in Conn : client_claim(c)
    \/ \E c \in Conn, ok \in BOOLEAN : client_send_reject(c, ok)
    \/ \E c \in Conn : client_next_session_id(c)
    \/ \E c \in Conn, ok \in BOOLEAN : client_send_accept(c, ok)
    \/ \E c \in Conn : client_rollback(c)
    \/ \E c \in Conn : client_handoff(c)

Spec == Init /\ [][Next]_vars

\* ------------------------------------------------------------------- relay
\* The server with well-formed handshakes only, on its first RelayConn
\* connections, and the bytes that peers write after their handshake request.
RelayFrames == {AgentFrame(1, IdA), ClientFrame(1, IdA)}
RelayConns == {c \in Conn : c <= RelayConn}

RECURSIVE TotalWritten(_)
TotalWritten(S) ==
    IF S = {} THEN 0
    ELSE LET c == CHOOSE x \in S : TRUE IN Len(written[c]) + TotalWritten(S \ {c})

\* A byte on the wire, told apart by who wrote it and where in that peer's
\* stream, and marked with whether the server had written the peer's
\* `accepted` when the peer wrote it.
Byte(c, i, acc) == [conn |-> c, seq |-> i, after_accepted |-> acc]

\* The peer of connection c writes one more byte after its request frame;
\* nothing stops it from doing so before the server has answered.
peer_write(c) ==
    /\ pc[c] # "idle"
    /\ request[c].role # "none"
    /\ TotalWritten(Conn) < MaxBytes
    /\ written' = [written EXCEPT ![c] = Append(@, Byte(c, Len(@) + 1,
                                   \E i \in DOMAIN wire[c] : wire[c][i].status = "accepted"))]
    /\ UNCHANGED <<serverVars, read_pos, delivered, loopVars, driverVars, endpointVars>>

\* Line 140: one transfer of copy_bidirectional, k bytes read from src in
\* the order they arrived and written to the other stream of the tunnel.
splice_copy(a, src, k) ==
    /\ pc[a] = "splice"
    /\ src \in {a, client_stream[a]}
    /\ read_pos[src] + k <= Len(written[src])
    /\ LET dst == IF src = a THEN client_stream[a] ELSE a IN
        delivered' = [delivered EXCEPT ![dst] =
                         @ \o SubSeq(written[src], read_pos[src] + 1, read_pos[src] + k)]
    /\ read_pos' = [read_pos EXCEPT ![src] = @ + k]
    /\ UNCHANGED <<serverVars, written, loopVars, driverVars, endpointVars>>

RelayNext ==
    \/ \E c \in RelayConns, f \in RelayFrames : handle_connection(c, f, TRUE)
    \/ \E c \in Conn : agent_register(c)
    \/ \E c \in Conn, ok \in BOOLEAN : agent_send_reject(c, ok)
    \/ \E c \in Conn : agent_next_session_id(c)
    \/ \E c \in Conn, ok \in BOOLEAN : agent_send_accept(c, ok)
    \/ \E c \in Conn : agent_rollback(c)
    \/ \E c \in Conn : agent_select_matched(c)
    \/ \E c \in Conn : agent_select_closed(c)
    \/ \E c \in Conn : agent_select_probe(c)
    \/ \E c \in Conn : splice_end(c)
    \/ \E c \in Conn : agent_remove(c)
    \/ \E c \in Conn : client_claim(c)
    \/ \E c \in Conn, ok \in BOOLEAN : client_send_reject(c, ok)
    \/ \E c \in Conn : client_next_session_id(c)
    \/ \E c \in Conn, ok \in BOOLEAN : client_send_accept(c, ok)
    \/ \E c \in Conn : client_rollback(c)
    \/ \E c \in Conn : client_handoff(c)
    \/ \E c \in Conn : peer_write(c)
    \/ \E a, src \in Conn, k \in 1..MaxBytes : splice_copy(a, src, k)

RelaySpec == Init /\ [][RelayNext]_vars

\* The steps a handler task takes by itself once it has been spawned: every
\* step but the ones that wait for its peer (data, EOF or an error on the
\* agent socket, the end of a tunnel).
HandlerStep(c) ==
    \/ \E ok \in BOOLEAN : reject_invalid(c, ok)
    \/ \E ok \in BOOLEAN : reject_version(c, ok)
    \/ agent_register(c)
    \/ \E ok \in BOOLEAN : agent_send_reject(c, ok)
    \/ agent_next_session_id(c)
    \/ \E ok \in BOOLEAN : agent_send_accept(c, ok)
    \/ agent_rollback(c)
    \/ agent_select_matched(c)
    \/ agent_select_closed(c)
    \/ agent_remove(c)
    \/ client_claim(c)
    \/ \E ok \in BOOLEAN : client_send_reject(c, ok)
    \/ client_next_session_id(c)
    \/ \E ok \in BOOLEAN : client_send_accept(c, ok)
    \/ client_rollback(c)
    \/ client_handoff(c)

\* The runtime polls every spawned task that can make progress, and a write
\* to a socket completes or fails.
FairSpec == Spec /\ \A c \in Conn : WF_vars(HandlerStep(c))

TypeOK ==
    /\ lock \in Conn \cup {NoConn}
    /\ sessions \in 1..(MaxConn + 1)
    /\ \A a \in AgentIds : agents[a] \in Conn \cup {NoConn}

\* ------------------------------------------------------------- accept loop
\* run_until from its first line, with a shutdown future that can complete.
LoopInit ==
    /\ ServerInit
    /\ accept_loop = "start"
    /\ shutdown = FALSE
    /\ accept_errors = 0
    /\ DriverIdle
    /\ EndpointIdle

LoopFrames ==
    { Frame(FALSE, 0, 0, FALSE, "agent", 1, NoId, NoId, NoId),
      AgentFrame(2, IdA), AgentFrame(1, IdA), ClientFrame(1, IdA) }

\* Lines 15-19: local_addr()? returns the error before the loop is entered.
run_until_start(ok) ==
    /\ accept_loop = "start"
    /\ accept_loop' = IF ok THEN "running" ELSE "returned_err"
    /\ UNCHANGED <<serverVars, relayVars, shutdown, accept_errors, driverVars, endpointVars>>

\* The future handed to run_until completes (main.rs: SIGINT or SIGTERM).
shutdown_complete ==
    /\ ~shutdown
    /\ shutdown' = TRUE
    /\ UNCHANGED <<serverVars, relayVars, accept_loop, accept_errors, driverVars, endpointVars>>

accept_loop_exits_on_error(loop) == "returned_err"

\* Lines 36-38: the Err arm of the match only logs; the loop goes round.
accept_loop_after_error(loop) == loop

\* Lines 26-27, 36-38: listener.accept() yields an error.
accept_error ==
    /\ accept_loop = "running"
    /\ accept_errors < MaxAcceptErrors
    /\ accept_errors' = accept_errors + 1
    /\ accept_loop' = accept_loop_after_error(accept_loop)
    /\ UNCHANGED <<serverVars, relayVars, shutdown, driverVars, endpointVars>>

accept_loop_ignores_shutdown(loop) == loop

\* Lines 22-25: the shutdown branch returns Ok(()) out of the loop.
accept_loop_after_shutdown(loop) == "returned_ok"

\* Lines 21-25: the select takes the shutdown branch, whatever the spawned
\* handlers are doing; they are neither awaited nor aborted by run_until.
run_until_return ==
    /\ accept_loop = "running"
    /\ shutdown
    /\ accept_loop' = accept_loop_after_shutdown(accept_loop)
    /\ UNCHANGED <<serverVars, relayVars, shutdown, accept_errors, driverVars, endpointVars>>

LoopNext ==
    \/ \E ok \in BOOLEAN : run_until_start(ok)
    \/ shutdown_complete
    \/ accept_error
    \/ run_until_return
    \/ \E c \in Conn, f \in LoopFrames, peer_ok \in BOOLEAN : handle_connection(c, f, peer_ok)
    \/ \E c \in Conn, ok \in BOOLEAN : reject_invalid(c, ok)
    \/ \E c \in Conn, ok \in BOOLEAN : reject_version(c, ok)
    \/ \E c \in Conn : agent_register(c)
    \/ \E c \in Conn, ok \in BOOLEAN : agent_send_reject(c, ok)
    \/ \E c \in Conn : agent_next_session_id(c)
    \/ \E c \in Conn, ok \in BOOLEAN : agent_send_accept(c, ok)
    \/ \E c \in Conn : agent_rollback(c)
    \/ \E c \in Conn : agent_select_matched(c)
    \/ \E c \in Conn : agent_select_closed(c)
    \/ \E c \in Conn : agent_select_probe(c)
    \/ \E c \in Conn : splice_end(c)
    \/ \E c \in Conn : agent_remove(c)
    \/ \E c \in Conn : client_claim(c)
    \/ \E c \in Conn, ok \in BOOLEAN : client_send_reject(c, ok)
    \/ \E c \in Conn : client_next_session_id(c)
    \/ \E c \in Conn, ok \in BOOLEAN : client_send_accept(c, ok)
    \/ \E c \in Conn : client_rollback(c)
    \/ \E c \in Conn : client_handoff(c)

LoopSpec == LoopInit /\ [][LoopNext]_vars

\* A select whose shutdown branch stays ready takes it after finitely many
\* rounds of the other branch; local_addr() does not block.
FairLoopSpec ==
    /\ LoopSpec
    /\ WF_vars(\E ok \in BOOLEAN : run_until_start(ok))
    /\ WF_vars(run_until_return)

\* ------------------------------------------------------------ agent driver
\* agent/src/app.rs.  A step is one poll of run(): the branch of the select
\* it is suspended in completes, and the code runs on into the first poll of
\* the next select.  That next select's own work (a connect, a handshake
\* read, a sleep) is never complete at its first poll, so when the shutdown
\* signal has already fired the next select takes its shutdown branch in the
\* same poll.
DriverInit ==
    /\ ServerInit
    /\ accept_loop = "running"
    /\ shutdown = FALSE
    /\ accept_errors = 0
    /\ DriverIdle
    /\ EndpointIdle

\* Values of AGENT_ID: a valid id, and one that AgentId::new refuses.
DriverIds == {IdA, IdShort}

\* What the driver reads after `accepted`: EOF, a read error, or data.  Data
\* is text, other bytes, or the frame of Noise message A that a client
\* initiator sends first, whose key bytes may or may not be valid UTF-8.
Chunks ==
    { [kind |-> "eof", utf8 |-> FALSE], [kind |-> "error", utf8 |-> FALSE],
      [kind |-> "text", utf8 |-> TRUE], [kind |-> "binary", utf8 |-> FALSE],
      [kind |-> "noise_msg_a", utf8 |-> TRUE], [kind |-> "noise_msg_a", utf8 |-> FALSE] }

\* Line 62: HandshakeRequest::agent(agent_id.clone()).
AgentRequest(id) == [role |-> "agent", protocol_version |-> PROTOCOL_VERSION, agent_id |-> id]

InConnection == {"conn_write", "conn_response", "conn_read"}

select_shutdown_unwatched(fired) == FALSE

\* The `_ = &mut shutdown` branch of each select (lines 20, 34, 47).
select_shutdown(fired) == fired

\* The rest of a poll: the driver suspends at `next`, or leaves the loop by
\* the shutdown branch of the select it has just entered and returns Ok(())
\* (line 54), dropping the connection it holds.
Step(next, last, out, inp, att) ==
    /\ drv_pc' = IF select_shutdown(drv_shutdown) THEN "exited" ELSE next
    /\ drv_result' = IF drv_pc' = "exited" THEN "ok" ELSE "none"
    /\ drv_connected' = (drv_pc' \in InConnection)
    /\ drv_timer' = IF drv_pc' = "sleep" THEN RETRY_DELAY_SECS ELSE 0
    /\ drv_last' = last
    /\ drv_out' = out
    /\ drv_in' = inp
    /\ drv_attempts' = att
    /\ UNCHANGED <<drv_agent_id, drv_shutdown, serverVars, relayVars, loopVars, endpointVars>>

attempt_end_exits_on_ok(outcome) == IF outcome = "eof" THEN "exited" ELSE "sleep"

\* Lines 26-51: whatever the attempt ended with, the code falls through the
\* match to the select on sleep(Duration::from_secs(1)).
attempt_end_next(outcome) == "sleep"

EndAttempt(outcome) ==
    Step(attempt_end_next(outcome), outcome, drv_out, drv_in, drv_attempts)

\* Lines 11-18: the id is built once, before the loop; an invalid id makes
\* run return the error.  polled = the first select polls its connect
\* branch before its shutdown branch.
drv_start(id, polled) ==
    /\ drv_pc = "start"
    /\ IF validate_id(id)
       THEN /\ drv_agent_id' = id
            /\ drv_pc' = IF select_shutdown(drv_shutdown) THEN "exited" ELSE "connect"
            /\ drv_result' = IF drv_pc' = "exited" THEN "ok" ELSE "none"
            /\ drv_attempts' = IF drv_pc' = "exited" /\ ~polled THEN 0 ELSE 1
       ELSE /\ drv_pc' = "exited"
            /\ drv_result' = "err"
            /\ UNCHANGED <<drv_agent_id, drv_attempts>>
    /\ UNCHANGED <<drv_shutdown, drv_timer, drv_last, drv_out, drv_in, drv_connected,
                   serverVars, relayVars, loopVars, endpointVars>>

\* shutdown_signal(): SIGINT or SIGTERM arrives, or ctrl_c() cannot listen.
drv_signal ==
    /\ drv_pc # "exited"
    /\ ~drv_shutdown
    /\ drv_shutdown' = TRUE
    /\ UNCHANGED <<drv_pc, drv_agent_id, drv_attempts, drv_timer, drv_last, drv_out,
                   drv_in, drv_connected, drv_result, serverVars, relayVars, loopVars, endpointVars>>

\* Lines 18-43: the connect branch completes.  On Ok the select at line 28
\* is entered; polled = its first poll runs connection_loop up to its first
\* await that suspends (the request is written) before the shutdown branch.
drv_connect_done(ok, polled) ==
    /\ drv_pc = "connect"
    /\ IF ok
       THEN Step("conn_write", drv_last,
                 IF select_shutdown(drv_shutdown) /\ polled
                    THEN <<AgentRequest(drv_agent_id)>> ELSE <<>>,
                 <<>>, drv_attempts)
       ELSE EndAttempt("connect_failed")

\* Lines 61-63: peer_addr()? and write_json_frame(..).await?.
drv_write_request(peer_ok, ok) ==
    /\ drv_pc = "conn_write"
    /\ IF peer_ok /\ ok
       THEN Step("conn_response", drv_last, <<AgentRequest(drv_agent_id)>>, drv_in,
                 drv_attempts)
       ELSE EndAttempt("error")

\* Lines 65-81: the response is accepted, rejected, or cannot be read.
drv_read_response(resp) ==
    /\ drv_pc = "conn_response"
    /\ IF resp = "accepted"
       THEN Step("conn_read", drv_last, drv_out, drv_in, drv_attempts)
       ELSE EndAttempt(resp)

\* Lines 83-90: every read after `accepted` goes through str::from_utf8 and
\* is logged as received bytes; no byte is read as a Noise message and none
\* is written back.
drv_read(chunk) ==
    /\ drv_pc = "conn_read"
    /\ IF chunk.kind \in {"eof", "error"}
       THEN EndAttempt(chunk.kind)
       ELSE /\ Len(drv_in) < MaxReads
            /\ IF chunk.utf8
               THEN Step("conn_read", drv_last, drv_out, Append(drv_in, chunk.kind),
                         drv_attempts)
               ELSE Step(attempt_end_next("error"), "error", drv_out,
                         Append(drv_in, chunk.kind), drv_attempts)

\* A second of the sleep at line 46 passes.
drv_tick ==
    /\ drv_pc = "sleep"
    /\ drv_timer > 0
    /\ drv_timer' = drv_timer - 1
    /\ UNCHANGED <<drv_pc, drv_agent_id, drv_shutdown, drv_attempts, drv_last, drv_out,
                   drv_in, drv_connected, drv_result, serverVars, relayVars, loopVars, endpointVars>>

\* Lines 45-46, 17-19: the sleep branch completes and the loop goes round
\* to the connect select.  polled = that select polls its connect branch,
\* which starts the connect, before its shutdown branch.
drv_sleep_elapsed(polled) ==
    /\ drv_pc = "sleep"
    /\ drv_timer = 0
    /\ drv_attempts < MaxAttempts
    /\ Step("connect", drv_last, <<>>, <<>>,
            IF select_shutdown(drv_shutdown) /\ ~polled
               THEN drv_attempts ELSE drv_attempts + 1)

\* Lines 20-23, 34-37, 47-50: the shutdown branch of the select the driver
\* is suspended in; break, then Ok(()) at line 54.
drv_shutdown_break ==
    /\ drv_pc \in {"connect", "sleep"} \cup InConnection
    /\ select_shutdown(drv_shutdown)
    /\ Step("exited", drv_last, drv_out, drv_in, drv_attempts)

DriverNext ==
    \/ \E id \in DriverIds, polled \in BOOLEAN : drv_start(id, polled)
    \/ drv_signal
    \/ \E ok \in BOOLEAN, polled \in BOOLEAN : drv_connect_done(ok, polled)
    \/ \E peer_ok \in BOOLEAN, ok \in BOOLEAN : drv_write_request(peer_ok, ok)
    \/ \E resp \in {"accepted", "rejected", "error"} : drv_read_response(resp)
    \/ \E chunk \in Chunks : drv_read(chunk)
    \/ drv_tick
    \/ \E polled \in BOOLEAN : drv_sleep_elapsed(polled)
    \/ drv_shutdown_break

DriverSpec == DriverInit /\ [][DriverNext]_vars

\* The runtime polls the driver task when a branch of its select is ready,
\* and time passes.
FairDriverSpec ==
    /\ DriverSpec
    /\ WF_vars(drv_shutdown_break)
    /\ WF_vars(drv_tick)
    /\ WF_vars(\E polled \in BOOLEAN : drv_sleep_elapsed(polled))

\* ------------------------------------------------------------------ claims
IsAgent(c) == request[c].role = "agent" /\ request[c].protocol_version = PROTOCOL_VERSION
IsClient(c) == request[c].role = "client" /\ request[c].protocol_version = PROTOCOL_VERSION
AcceptedSent(c) == \E i \in DOMAIN wire[c] : wire[c][i].status = "accepted"
InRegistry(w) == \E id \in AgentIds : agents[id] = w

\* The client handlers that ran line 164 and found no entry.
FoundAbsent(c) ==
    /\ IsClient(c)
    /\ pc[c] \in {"client_send_reject", "done"}
    /\ claimed[c] = NoConn

\* C1: a registration's waiter is held by at most one client handler at a
\* time, at most one client is sent `accepted` for one registration, and a
\* client handler that found the entry absent answers
\* rejected{agent_unavailable} and nothing else.
C1_AtomicClaim ==
    /\ \A c1, c2 \in Conn :
          (c1 # c2 /\ agent_waiter[c1] # NoConn) => agent_waiter[c1] # agent_waiter[c2]
    /\ \A c1, c2 \in Conn :
          (c1 # c2 /\ claimed[c1] # NoConn /\ claimed[c1] = claimed[c2])
             => ~(AcceptedSent(c1) /\ AcceptedSent(c2))
    /\ \A c \in Conn :
          FoundAbsent(c) =>
             /\ agent_waiter[c] = NoConn
             /\ pc[c] = "client_send_reject" => attempted[c] = <<>>
             /\ pc[c] = "done" => attempted[c] = <<Rejected("agent_unavailable")>>

\* Two clients raced for one registration: one holds its waiter while the
\* other has been answered agent_unavailable.
C1_Witness ==
    \E c1, c2 \in Conn :
        /\ c1 # c2 /\ IsClient(c1) /\ IsClient(c2)
        /\ request[c1].agent_id = request[c2].agent_id
        /\ agent_waiter[c1] # NoConn
        /\ pc[c2] = "done" /\ wire[c2] = <<Rejected("agent_unavailable")>>

\* The agent handlers that ran line 72 while the registry held their id.
ArrivedDuplicate(c) ==
    /\ IsAgent(c)
    /\ pc[c] \notin {"idle", "agent_lock"}
    /\ pre_entry[c] # NoConn

\* C2: an agent handshake that finds its id in the registry is answered
\* rejected{agent_id_in_use}, is never inserted, consumes no session id, and
\* leaves the earlier entry as it was.
C2_FirstComeFirstServed ==
    \A c \in Conn :
        ArrivedDuplicate(c) =>
            /\ pc[c] \in {"agent_send_reject", "done"}
            /\ ~InRegistry(c)
            /\ session_id[c] = 0
            /\ pc[c] = "agent_send_reject" =>
                  (attempted[c] = <<>> /\ agents[request[c].agent_id] = pre_entry[c])
            /\ pc[c] = "done" => attempted[c] = <<Rejected("agent_id_in_use")>>

\* A second agent has been rejected while the first one is registered and waiting.
C2_Witness ==
    \E c \in Conn :
        /\ ArrivedDuplicate(c)
        /\ pc[c] = "done" /\ wire[c] = <<Rejected("agent_id_in_use")>>
        /\ agents[request[c].agent_id] = pre_entry[c]
        /\ pc[pre_entry[c]] = "agent_select"

\* C3: every registry entry carries the waiter of an agent handler that is
\* still alive and has not been paired; after a handler has returned no entry
\* carries its waiter.
C3_NoRegistryLeak ==
    \A id \in AgentIds :
        agents[id] # NoConn => pc[agents[id]] \notin {"done", "splice"}

\* The handlers whose send_accept failed and that have rolled back and returned.
RolledBack(c) ==
    /\ pc[c] = "done" /\ result[c] = "err"
    /\ attempted[c] = <<Accepted(session_id[c])>> /\ wire[c] = <<>>

\* C4: the step in which a handler whose send_accept failed returns its error
\* leaves the registry entry of its AgentId as it was just before the
\* handler's own insert (agent path) or remove (client path), and touches no
\* other entry.
C4_Rollback ==
    [][\A c \in Conn :
          (pc[c] \in {"agent_rollback", "client_rollback"} /\ pc'[c] # pc[c]) =>
              /\ pc'[c] = "done" /\ result'[c] = "err"
              /\ agents'[request[c].agent_id] = pre_entry[c]
              /\ \A id \in AgentIds \ {request[c].agent_id} : agents'[id] = agents[id]]_vars

\* An agent handler and a client handler have both rolled back, and the
\* client's rollback put back the waiter it had taken.
C4_Witness ==
    \E a, c \in Conn :
        /\ IsAgent(a) /\ RolledBack(a)
        /\ IsClient(c) /\ RolledBack(c)
        /\ claimed[c] # NoConn /\ agents[request[c].agent_id] = claimed[c]

\* C5: an agent connection splices at most one client connection and a client
\* connection is spliced by at most one agent connection; once a client has
\* taken a registration and been sent `accepted`, that registration's waiter
\* is neither in the registry nor in another client handler's hands again.
C5_NoReplay ==
    /\ \A a1, a2 \in Conn :
          (a1 # a2 /\ client_stream[a1] # NoConn) => client_stream[a1] # client_stream[a2]
    /\ \A a \in Conn :
          client_stream[a] # NoConn =>
              (claimed[client_stream[a]] = a /\ AcceptedSent(client_stream[a]))
    /\ \A c \in Conn :
          (claimed[c] # NoConn /\ AcceptedSent(c)) =>
              /\ ~InRegistry(claimed[c])
              /\ \A d \in Conn \ {c} : agent_waiter[d] # claimed[c]

\* A tunnel has closed and the same id is registered again by a new connection.
C5_Witness ==
    \E a, b, c \in Conn :
        /\ client_stream[a] = c /\ pc[a] = "done"
        /\ b # a /\ agents[request[a].agent_id] = b /\ pc[b] = "agent_select"

\* C6: the values returned by next_session_id are 1, 2, 3, ... in call
\* order, and no two `accepted` responses written carry the same session id.
C6_SessionIdsNeverReused ==
    /\ \A i \in DOMAIN alloc_log : alloc_log[i] = i
    /\ \A i, j \in DOMAIN wire_log : i # j => wire_log[i] # wire_log[j]
    /\ \A c \in Conn : \A i \in DOMAIN wire[c] :
          wire[c][i].status = "accepted" => wire[c][i].session_id = session_id[c]
    /\ \A c, d \in Conn : (c # d /\ session_id[c] # 0) => session_id[c] # session_id[d]

\* An agent and a client have both been sent `accepted`.
C6_Witness ==
    \E a, c \in Conn :
        /\ IsAgent(a) /\ IsClient(c) /\ AcceptedSent(a) /\ AcceptedSent(c)
        /\ Len(alloc_log) >= 2

\* C7 as stated: the session ids of `accepted` responses increase in the order
\* in which the responses are written.
C7_WireOrderMonotone ==
    \A i, j \in DOMAIN wire_log : i < j => wire_log[i] < wire_log[j]

\* C7 as amended: an id returned by next_session_id is greater than every id
\* already written in an `accepted` response.
C7_AllocatedAfterSentIsGreater ==
    [][\A c \in Conn :
          session_id'[c] # session_id[c] =>
              \A i \in DOMAIN wire_log : wire_log[i] < session_id'[c]]_vars

\* Two `accepted` responses are on the wire out of id order, and a third
\* handler has been given its id since.
C7_Witness ==
    /\ Len(wire_log) >= 2
    /\ wire_log[1] > wire_log[2]
    /\ \E c \in Conn : session_id[c] > wire_log[1]

\* C8: a request whose protocol_version is not 1 gets
\* rejected{unsupported_protocol_version} and nothing else: its handler never
\* reaches role dispatch, the registry or the session counter.
C8_UnsupportedVersion ==
    \A c \in Conn :
        (request[c].role # "none" /\ request[c].protocol_version # PROTOCOL_VERSION) =>
            /\ pc[c] \in {"reject_version", "done"}
            /\ session_id[c] = 0 /\ ~InRegistry(c)
            /\ claimed[c] = NoConn /\ agent_waiter[c] = NoConn
            /\ pc[c] = "reject_version" => attempted[c] = <<>>
            /\ pc[c] = "done" =>
                  attempted[c] = <<Rejected("unsupported_protocol_version")>>

\* An agent request and a client request with a wrong version have both been
\* rejected while an agent is registered.
C8_Witness ==
    \E a, c \in Conn :
        /\ request[a].role = "agent" /\ request[c].role = "client"
        /\ request[a].protocol_version # PROTOCOL_VERSION
        /\ request[c].protocol_version # PROTOCOL_VERSION
        /\ wire[a] = <<Rejected("unsupported_protocol_version")>>
        /\ wire[c] = <<Rejected("unsupported_protocol_version")>>
        /\ \E id \in AgentIds : agents[id] # NoConn

\* C9: the claim step of a client whose target has no entry changes neither
\* the registry nor the session counter and takes no waiter, and the handler's
\* only remaining step writes rejected{agent_unavailable} and returns, without
\* touching any agent's channel.
C9_MissingTarget ==
    [][\A c \in Conn :
          /\ (pc[c] = "client_lock" /\ pc'[c] # pc[c]
                 /\ agents[request[c].agent_id] = NoConn) =>
                 /\ pc'[c] = "client_send_reject"
                 /\ agents' = agents /\ sessions' = sessions /\ rx' = rx
                 /\ agent_waiter'[c] = NoConn /\ session_id'[c] = 0
          /\ (pc[c] = "client_send_reject" /\ pc'[c] # pc[c]) =>
                 /\ pc'[c] = "done"
                 /\ attempted'[c] = <<Rejected("agent_unavailable")>>
                 /\ agents' = agents /\ sessions' = sessions /\ rx' = rx]_vars

\* A client asking for an id nobody registered has been rejected while
\* another id's agent is registered.
C9_Witness ==
    \E c \in Conn :
        /\ IsClient(c) /\ request[c].agent_id = IdB
        /\ pc[c] = "done" /\ wire[c] = <<Rejected("agent_unavailable")>>
        /\ agents[IdA] # NoConn

\* C10: when read_json_frame fails, the handler tries one
\* rejected{invalid_request}, returns Ok whether or not that write succeeded,
\* and never reaches the registry or the session counter.
C10_InvalidRequest ==
    \A c \in Conn :
        read_err[c] # "none" =>
            /\ pc[c] \in {"reject_invalid", "done"}
            /\ session_id[c] = 0 /\ ~InRegistry(c)
            /\ claimed[c] = NoConn /\ agent_waiter[c] = NoConn
            /\ pc[c] = "reject_invalid" => attempted[c] = <<>>
            /\ pc[c] = "done" =>
                  (attempted[c] = <<Rejected("invalid_request")>> /\ result[c] = "ok")

\* An I/O failure, an oversize frame and a JSON failure have each been
\* handled, one of them with a rejection that could not be written.
C10_Witness ==
    \E c1, c2, c3 \in Conn :
        /\ read_err[c1] = "io" /\ read_err[c2] = "frame_too_large" /\ read_err[c3] = "json"
        /\ pc[c1] = "done" /\ pc[c2] = "done" /\ pc[c3] = "done"
        /\ wire[c1] = <<>> /\ result[c1] = "ok"
        /\ wire[c2] = <<Rejected("invalid_request")>>

\* C11: when a client has claimed the entry of an agent that was accepted and
\* is waiting, then unless the client's `accepted` cannot be written or the
\* agent socket yields something first, the client is sent `accepted` and the
\* agent handler enters the splice with exactly that client's stream.
C11_HappyPath ==
    \A a, c \in Conn :
        (pc[a] = "agent_select" /\ pc[c] = "client_next_session_id" /\ claimed[c] = a)
            ~> \/ pc[a] = "splice" /\ client_stream[a] = c /\ AcceptedSent(c)
               \/ pc[c] = "client_rollback"
               \/ exit_via[a] = "probe"

\* A tunnel is up between an agent and the client that claimed it, and the
\* client handler has returned Ok.
C11_Witness ==
    \E a, c \in Conn :
        /\ pc[a] = "splice" /\ client_stream[a] = c /\ claimed[c] = a
        /\ wire[c] = <<Accepted(session_id[c])>>
        /\ pc[c] = "done" /\ result[c] = "ok"

IsPrefix(p, q) == Len(p) <= Len(q) /\ SubSeq(q, 1, Len(p)) = p

AfterAccepted(w) == SelectSeq(w, LAMBDA b : b.after_accepted)

\* The connections that are one end of a tunnel.
InTunnel(c) == \E a \in Conn : client_stream[a] # NoConn /\ c \in {a, client_stream[a]}

\* C12 as stated: what the agent is sent is a prefix of what the client wrote
\* after its request, what the client is sent after its `accepted` is a
\* prefix of what the agent wrote after its own `accepted`, and no byte goes
\* to a connection that is not paired.
C12_TransparentRelay ==
    /\ \A a \in Conn :
          client_stream[a] # NoConn =>
              /\ IsPrefix(delivered[a], written[client_stream[a]])
              /\ IsPrefix(delivered[client_stream[a]], AfterAccepted(written[a]))
    /\ \A c \in Conn : ~InTunnel(c) => delivered[c] = <<>>

\* C12 as amended: what each end of a tunnel is sent is a prefix of what the
\* other end wrote after its handshake request, and no byte goes to a
\* connection that is not paired.
C12_RelayOfAllBytesAfterRequest ==
    /\ \A a \in Conn :
          client_stream[a] # NoConn =>
              /\ IsPrefix(delivered[a], written[client_stream[a]])
              /\ IsPrefix(delivered[client_stream[a]], written[a])
    /\ \A c \in Conn : ~InTunnel(c) => delivered[c] = <<>>

\* Both ends have written one byte and have been sent the other's; the
\* client's byte was written before the client had its `accepted`.
C12_Witness ==
    \E a, c \in Conn :
        /\ client_stream[a] = c
        /\ delivered[a] = written[c] /\ Len(written[c]) = 1
        /\ ~written[c][1].after_accepted
        /\ delivered[c] = written[a] /\ Len(written[a]) = 1

SocketIO ==
    {"reject_invalid", "reject_version", "agent_send_reject", "agent_send_accept",
     "agent_select", "splice", "client_send_reject", "client_send_accept"}

\* C14: no handler holds the registry write-lock while it is suspended on
\* socket I/O.
C14_LockDiscipline ==
    \A c \in Conn : pc[c] \in SocketIO => lock # c

\* C15: the step that follows the end of a splice removes the entry of the
\* handler's agent_id and returns Ok, and once that handler has returned the
\* registry never holds its waiter again.
C15_SpliceExit ==
    [][\A c \in Conn :
          /\ (exit_via[c] = "splice" /\ pc[c] = "agent_remove" /\ pc'[c] # pc[c]) =>
                 /\ pc'[c] = "done" /\ result'[c] = "ok"
                 /\ agents'[request[c].agent_id] = NoConn
          /\ (exit_via'[c] = "splice" /\ pc'[c] = "done") =>
                 agents'[request[c].agent_id] # c]_vars

\* The end of a tunnel removed the entry a second agent had registered under
\* the same id meanwhile: that agent's channel is closed.
C15_Witness ==
    \E a, b \in Conn :
        /\ exit_via[a] = "splice" /\ pc[a] = "done" /\ result[a] = "ok"
        /\ b # a /\ IsAgent(b) /\ request[b].agent_id = request[a].agent_id
        /\ pc[b] = "agent_select" /\ rx[b] = RxClosed
        /\ agents[request[a].agent_id] = NoConn

\* C16: the accept loop is left only by the shutdown branch, never by an
\* accept error or a handler's error, and while it runs and a connection is
\* left to arrive the next accept can be taken, whatever earlier accepts and
\* handlers ended with.
C16_ListenerResilience ==
    /\ [][(accept_loop = "running" /\ accept_loop' # "running") =>
               (shutdown /\ accept_loop' = "returned_ok")]_vars
    /\ [][accept_loop' = "returned_err" => accept_loop \in {"start", "returned_err"}]_vars
    /\ []((accept_loop = "running" /\ \E c \in Conn : pc[c] = "idle") =>
              ENABLED (\E c \in Conn, f \in LoopFrames : handle_connection(c, f, TRUE)))

\* An accept has failed, the handler of the first connection has returned an
\* error, and a connection accepted after it has been handled to the end
\* while the loop is still running.
C16_Witness ==
    /\ accept_loop = "running" /\ accept_errors > 0
    /\ pc[1] = "done" /\ result[1] = "err" /\ attempted[1] = <<>>
    /\ pc[2] = "done" /\ result[2] = "ok" /\ wire[2] # <<>>

\* C17: once the shutdown future has completed the loop's shutdown branch can
\* be taken whatever the handlers are doing, and run_until returns Ok.
C17_Shutdown ==
    /\ []((shutdown /\ accept_loop = "running") => ENABLED run_until_return)
    /\ (shutdown /\ accept_loop = "running") ~> (accept_loop = "returned_ok")

\* run_until has returned Ok while a tunnel is up and another agent waits.
C17_Witness ==
    /\ accept_loop = "returned_ok"
    /\ \E a, b \in Conn : pc[a] = "splice" /\ pc[b] = "agent_select"

\* The selects the driver can be suspended in.
DriverRunning == {"connect", "sleep"} \cup InConnection

\* The selects of one connection attempt.
AttemptPcs == {"connect"} \cup InConnection

\* C18: an attempt that ends without shutdown is followed by the one-second
\* sleep, the sleep by a new connect with the same AgentId, every request
\* written carries that id, the loop is left only after the shutdown signal,
\* and a sleeping driver does go on to connect again (or is shut down).
C18_Retry ==
    /\ [][/\ (drv_pc \in AttemptPcs /\ drv_pc' \notin AttemptPcs) =>
                ((drv_pc' = "sleep" /\ drv_timer' = RETRY_DELAY_SECS /\ ~drv_shutdown)
                    \/ (drv_pc' = "exited" /\ drv_shutdown))
          /\ (drv_pc = "sleep" /\ drv_pc' # "sleep") =>
                ((drv_pc' = "connect" /\ drv_timer = 0
                     /\ drv_attempts' = drv_attempts + 1)
                    \/ (drv_pc' = "exited" /\ drv_shutdown))
          /\ (drv_pc # "start") => (drv_agent_id' = drv_agent_id)
          /\ (drv_out' # drv_out /\ drv_out' # <<>>) =>
                (drv_out' = <<AgentRequest(drv_agent_id)>>)
          /\ (drv_pc' = "exited" /\ drv_pc \in DriverRunning) => drv_shutdown]_vars
    /\ (drv_pc = "sleep" /\ drv_attempts < MaxAttempts) ~> (drv_pc \in {"connect", "exited"})

\* The driver is connecting for the third time, after a rejection, with no
\* shutdown signal.
C18_Witness ==
    /\ drv_pc = "connect" /\ drv_attempts >= 3
    /\ drv_last = "rejected" /\ ~drv_shutdown

\* A step of the driver itself, not of its signal or its timer.
DriverMoved ==
    <<drv_pc, drv_attempts, drv_last, drv_out, drv_in>>' #
        <<drv_pc, drv_attempts, drv_last, drv_out, drv_in>>

\* C19 as stated: once the shutdown signal has fired while the driver is
\* connecting, running a connection or sleeping, no further connect is started.
C19_NoAttemptAfterShutdown ==
    [][(drv_shutdown /\ drv_pc \in DriverRunning) => drv_attempts' = drv_attempts]_vars

\* C19 as amended: the first step the driver takes after the signal has fired
\* makes run return Ok with no connection held, having started at most one
\* more connect, and the driver does take that step.
C19_ShutdownExit ==
    /\ [][(drv_shutdown /\ drv_pc \in DriverRunning /\ DriverMoved) =>
              (drv_pc' = "exited" /\ drv_result' = "ok" /\ ~drv_connected'
                  /\ drv_attempts' <= drv_attempts + 1)]_vars
    /\ (drv_shutdown /\ drv_pc \in DriverRunning) ~> (drv_pc = "exited" /\ drv_result = "ok")

\* The driver has returned Ok after a shutdown signal that found it in a
\* connection on which it had been accepted and had read data.
C19_Witness ==
    /\ drv_pc = "exited" /\ drv_result = "ok" /\ drv_shutdown
    /\ drv_out # <<>> /\ drv_in # <<>> /\ ~drv_connected

\* C20: after `accepted` the driver takes received bytes as application data
\* only once it has answered Noise message A, that is, once it has written
\* a frame after its handshake request.
C20_NoiseResponder ==
    drv_in # <<>> => Len(drv_out) > 1

\* ----------------------------------------------------------- client driver
\* client/src/app.rs.  `client` holds where run() is suspended (pc), its two
\* ids, whether the shutdown signal has fired, how many connects it started, how many
\* handshake requests and transport messages it wrote, the Noise handshake
\* messages it wrote, the seconds left of its sleep, and what run returned.
\* A step is one poll of run(), as for the agent driver.  A connect, a frame
\* read and a sleep are never complete at the first poll of their select; a
\* write to a connected socket can be.
\* What the server can answer a client with, besides `accepted`.
ClientRejections == {"agent_unavailable", "unsupported_protocol_version", "invalid_request"}

\* How a select entered with the signal already fired resolves when its
\* other branch is a write: the shutdown branch is polled first or the write
\* is pending, the write is polled first and completes, or it fails.
Races == {"shutdown", "step_ok", "step_err"}

\* The selects run() can be suspended in.
ClientSuspended == {"connect", "write", "response", "noise", "send", "sleep"}

cl_select_shutdown_unwatched(fired) == FALSE

\* The `_ = &mut shutdown` branch of each select (lines 32, 41, 49, 73, 85, 93).
cl_select_shutdown(fired) == fired

failure_next_retry(kind) == "connect"

\* Lines 26, 28, 31, 37, 40, 48, 63-67, 72, 83: `?` and `return Err(..)`
\* leave run(); nothing loops back to the connect.
failure_next(kind) == "exited"

ClFail(c, kind) ==
    [c EXCEPT !.pc = failure_next(kind), !.result = "err", !.fail = kind, !.timer = 0]

\* `return Ok(())` of a shutdown branch, or `break` and line 100.
ClOk(c) == [c EXCEPT !.pc = "exited", !.result = "ok", !.timer = 0]

\* run() arrives at a select whose other branch cannot complete at its
\* first poll (lines 30, 47, 91).
ClEnter(c, next) ==
    IF cl_select_shutdown(c.shutdown)
    THEN ClOk(c)
    ELSE [c EXCEPT !.pc = next,
                   !.timer = IF next = "sleep" THEN SEND_INTERVAL_SECS ELSE 0]

\* run() arrives at a select whose other branch is a write: the handshake
\* request (line 39, next = "write") or a transport message (line 81,
\* next = "send").
ClEnterIo(c, next, race) ==
    IF ~cl_select_shutdown(c.shutdown) THEN [c EXCEPT !.pc = next]
    ELSE IF race = "shutdown" THEN ClOk(c)
    ELSE IF race = "step_err" THEN ClFail(c, next)
    ELSE IF next = "write" THEN ClEnter([c EXCEPT !.requests = @ + 1], "response")
    ELSE ClEnter([c EXCEPT !.sends = @ + 1], "sleep")

\* Line 71: the first poll of handshake_xx_initiator writes message A and
\* suspends in the read of message B (secure.rs lines 91-95).
ClEnterNoise(c, race) ==
    IF ~cl_select_shutdown(c.shutdown)
    THEN [c EXCEPT !.pc = "noise", !.noise = <<"message_a">>]
    ELSE IF race = "shutdown" THEN ClOk(c)
    ELSE IF race = "step_err" THEN ClFail(c, "noise")
    ELSE ClOk([c EXCEPT !.noise = <<"message_a">>])

ClientFrame_ == UNCHANGED <<serverVars, relayVars, loopVars, driverVars, fr, sec, idv, tun>>

\* Lines 20-36: the ids are built, an invalid one makes run return the
\* error; then the connect select.  polled = that select polls its connect
\* branch, which starts the connect, before its shutdown branch.
cl_start(cid, tid, polled) ==
    /\ client.pc = "start"
    /\ client' =
          IF ~(validate_id(cid) /\ validate_id(tid)) THEN ClFail(client, "invalid_id")
          ELSE ClEnter([client EXCEPT !.client_id = cid, !.target_agent_id = tid,
                          !.connects = IF cl_select_shutdown(client.shutdown) /\ ~polled
                                          THEN 0 ELSE 1], "connect")
    /\ ClientFrame_

\* Line 20: the future of signal::shutdown_signal() completes.
cl_signal ==
    /\ client.pc # "exited"
    /\ ~client.shutdown
    /\ client' = [client EXCEPT !.shutdown = TRUE]
    /\ ClientFrame_

\* Lines 31, 37-39: connect_result?, stream.peer_addr()?, then the select
\* on write_json_frame.
cl_connect_done(ok, peer_ok, race) ==
    /\ client.pc = "connect"
    /\ client' = IF ~ok THEN ClFail(client, "connect")
                 ELSE IF ~peer_ok THEN ClFail(client, "peer_addr")
                 ELSE ClEnterIo(client, "write", race)
    /\ ClientFrame_

\* Lines 40, 47: write_result?, then the select on read_json_frame.
cl_write_done(ok) ==
    /\ client.pc = "write"
    /\ client' = IF ok THEN ClEnter([client EXCEPT !.requests = @ + 1], "response")
                 ELSE ClFail(client, "write")
    /\ ClientFrame_

\* Lines 48, 55-71: read_result?, the match on the response, then the
\* select on handshake_xx_initiator.
cl_read_response(resp, race) ==
    /\ client.pc = "response"
    /\ client' = IF resp = "accepted" THEN ClEnterNoise(client, race)
                 ELSE ClFail(client, resp)
    /\ ClientFrame_

\* Lines 72, 78-82: secure_result?; on Ok messages B and C have passed and
\* the loop's first select on secure_channel.send is entered.
cl_noise_done(ok, race) ==
    /\ client.pc = "noise"
    /\ client' = IF ok
                 THEN ClEnterIo([client EXCEPT !.noise = <<"message_a", "message_c">>],
                                "send", race)
                 ELSE ClFail(client, "noise")
    /\ ClientFrame_

\* Lines 82-84, 91: write_result?, then the select on the sleep.
cl_send_done(ok) ==
    /\ client.pc = "send"
    /\ client' = IF ok THEN ClEnter([client EXCEPT !.sends = @ + 1], "sleep")
                 ELSE ClFail(client, "send")
    /\ ClientFrame_

\* A second of the sleep at line 92 passes.
cl_tick ==
    /\ client.pc = "sleep"
    /\ client.timer > 0
    /\ client' = [client EXCEPT !.timer = @ - 1]
    /\ ClientFrame_

\* Lines 92, 80-82: the sleep branch completes and the loop goes round to
\* the select on secure_channel.send.
cl_sleep_elapsed(race) ==
    /\ client.pc = "sleep"
    /\ client.timer = 0
    /\ client.sends < MaxSends
    /\ client' = ClEnterIo(client, "send", race)
    /\ ClientFrame_

\* Lines 32-35, 41-44, 49-52, 73-76, 85-88, 93-96: the shutdown branch of
\* the select run() is suspended in.
cl_shutdown_return ==
    /\ client.pc \in ClientSuspended
    /\ cl_select_shutdown(client.shutdown)
    /\ client' = ClOk(client)
    /\ ClientFrame_

ClientNext ==
    \/ \E cid \in {IdClient, IdShort}, tid \in {IdA, IdB, IdSpace}, polled \in BOOLEAN :
          cl_start(cid, tid, polled)
    \/ cl_signal
    \/ \E ok \in BOOLEAN, peer_ok \in BOOLEAN, race \in Races : cl_connect_done(ok, peer_ok, race)
    \/ \E ok \in BOOLEAN : cl_write_done(ok)
    \/ \E resp \in {"accepted", "read_error"} \cup ClientRejections, race \in Races :
          cl_read_response(resp, race)
    \/ \E ok \in BOOLEAN, race \in Races : cl_noise_done(ok, race)
    \/ \E ok \in BOOLEAN : cl_send_done(ok)
    \/ cl_tick
    \/ \E race \in Races : cl_sleep_elapsed(race)
    \/ cl_shutdown_return

ClientSpec == Init /\ [][ClientNext]_vars

\* The runtime polls the client task when a branch of its select is ready,
\* and time passes.
FairClientSpec ==
    /\ ClientSpec
    /\ WF_vars(cl_shutdown_return)
    /\ WF_vars(cl_tick)


\* C21: run() starts at most one connect and writes at most one handshake
\* request; a rejection or any failed step makes it return the error, and
\* once run() has returned nothing more happens: there is no reconnect.
C21_SingleShot ==
    /\ [](client.connects <= 1 /\ client.requests <= 1)
    /\ [](client.fail # "none" => (client.pc = "exited" /\ client.result = "err"))
    /\ [][client.pc = "exited" => client' = client]_vars

\* The client was rejected by the server after its one connect and its one
\* request, and returned the error.
C21_Witness ==
    /\ client.pc = "exited" /\ client.result = "err"
    /\ client.fail = "agent_unavailable"
    /\ client.connects = 1 /\ client.requests = 1 /\ ~client.shutdown

\* A step of run() itself, not of its signal or its timer.
ClientMoved == client.pc' # client.pc

\* C22 as stated: once the signal has fired while run() is suspended in a
\* select, the pending step is abandoned and run returns Ok.
C22_ShutdownPreempts ==
    [][(client.shutdown /\ client.pc \in ClientSuspended /\ ClientMoved) =>
           (client.pc' = "exited" /\ client.result' = "ok"
               /\ client.requests' = client.requests /\ client.sends' = client.sends)]_vars

\* C22 as amended: the first step run() takes after the signal has fired
\* makes it return, with Ok unless a step that completed in that same poll
\* failed, having started no connect and written at most one more frame;
\* the shutdown branch alone returns Ok and writes nothing; and run() does
\* take that step.
C22_ShutdownExit ==
    /\ [][(client.shutdown /\ client.pc \in ClientSuspended /\ ClientMoved) =>
              /\ client.pc' = "exited"
              /\ client.result' = "ok" \/ client.fail' # "none"
              /\ client.connects' = client.connects
              /\ client.requests' + client.sends' <= client.requests + client.sends + 1]_vars
    /\ [][(client.pc \in ClientSuspended /\ client.pc' = "exited" /\ client.result' = "ok") =>
              client.shutdown]_vars
    /\ (client.shutdown /\ client.pc \in ClientSuspended) ~> (client.pc = "exited")

\* run() has returned Ok after a signal that found it in the send loop of an
\* established channel.
C22_Witness ==
    /\ client.pc = "exited" /\ client.result = "ok" /\ client.shutdown
    /\ client.noise = <<"message_a", "message_c">> /\ client.sends >= 2


\* ------------------------------------------------------------------ framing
\* lib/src/protocol/framing.rs over one direction of a stream.  `fr` holds
\* the bytes written and not yet read, whether the writing end has been
\* closed, the calls of write_bytes_frame, the payload length and the error
\* of the last one, the payloads accepted (each as its length and fill
\* pattern), and what the reader got: how
\* many frames, the last payload, its error, and how many bytes the failing
\* read took off the stream.

\* Payloads are n bytes long, byte i being (i * k) % 256.
Payload(n, k) == [i \in 1..n |-> (i * k) % 256]

\* write_u32 / read_u32: four bytes, most significant first.
be_u32(n) == <<(n \div 16777216) % 256, (n \div 65536) % 256, (n \div 256) % 256, n % 256>>

from_be_u32(b) == (b[1] * 16777216) + (b[2] * 65536) + (b[3] * 256) + b[4]

write_bytes_frame_unbounded(payload) ==
    [err |-> "none", out |-> be_u32(Len(payload)) \o payload]

\* Lines 37-49: the bytes the writer is given, or FrameTooLarge and none.
write_bytes_frame(payload) ==
    IF Len(payload) > MAX_FRAME_BYTES
    THEN [err |-> "frame_too_large", out |-> <<>>]
    ELSE [err |-> "none", out |-> be_u32(Len(payload)) \o payload]

\* Lines 51-63 on a stream holding `stream` before EOF: the payload, the
\* error, and the number of bytes taken from the stream.
read_bytes_frame(stream) ==
    IF Len(stream) < 4
    THEN [err |-> "io", payload |-> <<>>, consumed |-> Len(stream)]
    ELSE LET len == from_be_u32(SubSeq(stream, 1, 4)) IN
         IF len > MAX_FRAME_BYTES
         THEN [err |-> "frame_too_large", payload |-> <<>>, consumed |-> 4]
         ELSE IF Len(stream) < 4 + len
         THEN [err |-> "io", payload |-> <<>>, consumed |-> Len(stream)]
         ELSE [err |-> "none", payload |-> SubSeq(stream, 5, 4 + len), consumed |-> 4 + len]

FrameFrame_ == UNCHANGED <<serverVars, relayVars, loopVars, driverVars, client, sec, idv, tun>>

\* A call of write_bytes_frame(writer, payload) on the open stream.
fr_write(n, k) ==
    /\ ~fr.closed
    /\ fr.r_err = "none"
    /\ fr.writes < MaxFrames
    /\ LET w == write_bytes_frame(Payload(n, k)) IN
        fr' = [fr EXCEPT !.stream = @ \o w.out,
                         !.writes = @ + 1,
                         !.w_len = n,
                         !.w_err = w.err,
                         !.sent = IF w.err = "none" THEN Append(@, <<n, k>>) ELSE @]
    /\ FrameFrame_

\* The peer writes four length bytes itself, with no payload after them.
fr_write_raw(len) ==
    /\ ~fr.closed
    /\ fr' = [fr EXCEPT !.stream = @ \o be_u32(len), !.closed = TRUE]
    /\ FrameFrame_

\* The writing end is closed after `keep` of the bytes still unread.
fr_close(keep) ==
    /\ ~fr.closed
    /\ keep <= Len(fr.stream)
    /\ fr' = [fr EXCEPT !.stream = SubSeq(@, 1, keep), !.closed = TRUE]
    /\ FrameFrame_

\* A call of read_bytes_frame(reader) that completes: a whole frame is
\* there, or the declared length is refused, or EOF cuts the frame short.
fr_read ==
    /\ fr.r_err = "none"
    /\ LET r == read_bytes_frame(fr.stream) IN
        /\ r.err = "io" => fr.closed
        /\ fr' = [fr EXCEPT !.stream = SubSeq(@, r.consumed + 1, Len(@)),
                            !.reads = IF r.err = "none" THEN @ + 1 ELSE @,
                            !.payload = r.payload,
                            !.r_err = r.err,
                            !.consumed = r.consumed]
    /\ FrameFrame_

FrameNext ==
    \/ \E n \in {0, 1, MAX_FRAME_BYTES, MAX_FRAME_BYTES + 1}, k \in {1, 255} : fr_write(n, k)
    \/ \E len \in {MAX_FRAME_BYTES, MAX_FRAME_BYTES + 1, 2147483647} : fr_write_raw(len)
    \/ \E keep \in {0, 3, 4, 5} : fr_close(keep)
    \/ fr_read

FrameSpec == Init /\ [][FrameNext]_vars


\* The four length bytes at the head of a stream, read most significant
\* byte first.
Declared(stream) ==
    (((((stream[1] * 256) + stream[2]) * 256) + stream[3]) * 256) + stream[4]

\* C28: a call of write_bytes_frame with more than 65536 payload bytes
\* fails with FrameTooLarge and leaves the stream as it was, and any other
\* call appends the length as four big-endian bytes and then the payload;
\* a read_bytes_frame that finds a declared length above 65536 fails with
\* FrameTooLarge having taken only the four length bytes, and one that
\* succeeds returns exactly the declared number of bytes that follow them;
\* and the i-th frame read is byte for byte the i-th payload written.
C28_FrameRoundTrip ==
    /\ [][fr'.writes # fr.writes =>
              IF fr'.w_len > 65536
              THEN /\ fr'.w_err = "frame_too_large"
                   /\ fr'.stream = fr.stream /\ fr'.sent = fr.sent
              ELSE /\ fr'.w_err = "none"
                   /\ \E k \in {1, 255} :
                        /\ fr'.sent = Append(fr.sent, <<fr'.w_len, k>>)
                        /\ fr'.stream = fr.stream
                              \o <<0, fr'.w_len \div 65536, (fr'.w_len \div 256) % 256,
                                   fr'.w_len % 256>>
                              \o Payload(fr'.w_len, k)]_vars
    /\ [][(fr.r_err = "none" /\ (fr'.reads # fr.reads \/ fr'.r_err # "none")) =>
              IF Len(fr.stream) >= 4 /\ Declared(fr.stream) > 65536
              THEN /\ fr'.r_err = "frame_too_large" /\ fr'.consumed = 4
                   /\ fr'.stream = SubSeq(fr.stream, 5, Len(fr.stream))
              ELSE fr'.r_err = "none" =>
                      /\ Len(fr'.payload) = Declared(fr.stream)
                      /\ fr.stream = SubSeq(fr.stream, 1, 4) \o fr'.payload \o fr'.stream]_vars
    /\ []((fr.reads > 0 /\ fr.r_err = "none") =>
              /\ fr.reads <= Len(fr.sent)
              /\ fr.payload = Payload(fr.sent[fr.reads][1], fr.sent[fr.reads][2]))

\* A payload of exactly 65536 bytes and an empty one have been written and
\* read back, and nothing is left on the stream.
C28_Witness ==
    /\ fr.reads = 2 /\ fr.r_err = "none" /\ fr.stream = <<>>
    /\ fr.sent[1][1] = 65536 /\ fr.sent[2][1] = 0
    /\ fr.payload = <<>>


\* ----------------------------------------------------------- secure channel
\* lib/src/protocol/secure.rs between an initiator "i" and a responder "r",
\* each reading what the other wrote.  What travels between them passes
\* through the relay, which can put a frame of its own in front of a
\* reader.  NoiseSession and its constants (lib/src/security/noise) are
\* taken from sections 4.4 and 9 of the specification: DHLEN and MAC_LENGTH,
\* messages that fill the buffer they are given, in place, and ciphers that
\* authenticate every byte under a nonce that counts the messages.
DHLEN == 32
MAC_LENGTH == 16

\* Lines 15-17.
NOISE_HANDSHAKE_MSG_LEN(step) ==
    IF step = "message_a" THEN DHLEN + MAC_LENGTH
    ELSE IF step = "message_b" THEN (2 * DHLEN) + (2 * MAC_LENGTH)
    ELSE DHLEN + (2 * MAC_LENGTH)

\* session.send_message on the zeroed buffer of a handshake step: the
\* buffer keeps its length and holds that step's message.
HandshakeMsg(step) ==
    Payload(NOISE_HANDSHAKE_MSG_LEN(step),
            IF step = "message_a" THEN 3 ELSE IF step = "message_b" THEN 5 ELSE 7)

\* The AEAD tag of the n-th transport message of a cipher.
Tag(n) == [i \in 1..MAC_LENGTH |-> (n + i) % 256]

\* session.send_message on a transport buffer (plaintext, then MAC_LENGTH
\* bytes for the tag), in place.
send_message(in_out, n) ==
    [i \in 1..Len(in_out) |->
        IF i <= Len(in_out) - MAC_LENGTH THEN (in_out[i] + n + 1) % 256
        ELSE Tag(n)[i - (Len(in_out) - MAC_LENGTH)]]

\* session.recv_message on a transport buffer, in place: it fails unless
\* the buffer is what the peer's cipher made of some plaintext under the
\* same nonce.
recv_message(in_out, n) ==
    IF Len(in_out) < MAC_LENGTH THEN [ok |-> FALSE, out |-> in_out]
    ELSE IF SubSeq(in_out, Len(in_out) - MAC_LENGTH + 1, Len(in_out)) # Tag(n)
    THEN [ok |-> FALSE, out |-> in_out]
    ELSE [ok |-> TRUE,
          out |-> [i \in 1..Len(in_out) |->
                     IF i <= Len(in_out) - MAC_LENGTH THEN (in_out[i] + 255 - n) % 256
                     ELSE in_out[i]]]

validate_handshake_len_skipped(step, frame, expected) == NoErr

\* Lines 177-190.
validate_handshake_len(step, frame, expected) ==
    IF Len(frame) # expected
    THEN [kind |-> "invalid_handshake_message_length", step |-> step,
          expected |-> expected, got |-> Len(frame)]
    ELSE NoErr

SecErr(kind, got) == [kind |-> kind, step |-> "none", expected |-> 0, got |-> got]

from_transport_session_unchecked(phase) == TRUE

\* Lines 168-174: Ok when session.is_transport(), else HandshakeIncomplete.
from_transport_session(phase) == phase = "transport"

\* The end of a handshake function: after a step that is not the last the
\* function goes on to `next`; after the last the session, whose last
\* message has been processed, reports its phase (is_transport) and
\* from_transport_session decides what the function returns.
handshake_goes_on(s, me, next, is_transport) ==
    LET p == [s EXCEPT ![me].phase = IF is_transport THEN "transport" ELSE "handshake"]
    IN  IF next # "transport" THEN [s EXCEPT ![me].pc = next]
        ELSE IF from_transport_session(p[me].phase) THEN [p EXCEPT ![me].pc = "transport"]
        ELSE [p EXCEPT ![me].pc = "failed", ![me].err = SecErr("handshake_incomplete", 0)]

\* Lines 95-103, 115-121 and 123-127: read a frame, check its length, pass
\* it to recv_message, and (unless this is the responder's last read) fill
\* and write the next message.  An error returns from the handshake function.
handshake_read(s, me, peer, step, next, reply, is_transport) ==
    LET r == read_bytes_frame(s[me].inbox)
        v == validate_handshake_len(step, r.payload, NOISE_HANDSHAKE_MSG_LEN(step))
        took == [s EXCEPT ![me].inbox = SubSeq(@, r.consumed + 1, Len(@))]
        called == [took EXCEPT ![me].recv = Append(@, Len(r.payload))]
    IN  IF r.err # "none"
        THEN [took EXCEPT ![me].pc = "failed", ![me].err = SecErr("protocol", 0)]
        ELSE IF v # NoErr
        THEN [took EXCEPT ![me].pc = "failed", ![me].err = v]
        ELSE IF r.payload # HandshakeMsg(step)
        THEN [called EXCEPT ![me].pc = "failed", ![me].err = SecErr("noise", Len(r.payload))]
        ELSE IF reply = "none"
        THEN handshake_goes_on(called, me, next, is_transport)
        ELSE handshake_goes_on(
                 [called EXCEPT ![me].wrote = Append(@, Len(HandshakeMsg(reply))),
                                ![peer].inbox = @ \o write_bytes_frame(HandshakeMsg(reply)).out],
                 me, next, is_transport)

\* A whole frame is waiting for `me`: read_bytes_frame completes with Ok.
FrameWaiting(me) ==
    /\ Len(sec[me].inbox) >= 4
    /\ from_be_u32(SubSeq(sec[me].inbox, 1, 4)) <= MAX_FRAME_BYTES
    /\ Len(sec[me].inbox) >= 4 + from_be_u32(SubSeq(sec[me].inbox, 1, 4))

SecureFrame_ == UNCHANGED <<serverVars, relayVars, loopVars, driverVars, client, fr, idv, tun>>

\* Lines 89-93: the initiator fills and writes message A.
handshake_xx_initiator_start ==
    /\ sec["i"].pc = "start"
    /\ sec' = [sec EXCEPT !["i"].pc = "message_b",
                          !["i"].wrote = Append(@, Len(HandshakeMsg("message_a"))),
                          !["r"].inbox = @ \o write_bytes_frame(HandshakeMsg("message_a")).out]
    /\ SecureFrame_

\* Lines 95-103: the initiator reads message B and answers with message C.
handshake_xx_initiator_read(is_transport) ==
    /\ sec["i"].pc = "message_b"
    /\ FrameWaiting("i")
    /\ sec' = handshake_read(sec, "i", "r", "message_b", "transport", "message_c",
                             is_transport)
    /\ SecureFrame_

\* Lines 115-127: the responder reads message A and answers with message
\* B, or reads message C.
handshake_xx_responder_read(is_transport) ==
    /\ sec["r"].pc \in {"message_a", "message_c"}
    /\ FrameWaiting("r")
    /\ sec' = IF sec["r"].pc = "message_a"
              THEN handshake_read(sec, "r", "i", "message_a", "message_c", "message_b",
                                  is_transport)
              ELSE handshake_read(sec, "r", "i", "message_c", "transport", "none",
                                  is_transport)
    /\ SecureFrame_

\* Lengths next to the one a reader at `at` expects, or next to the least
\* one it takes.
ForgedLens(at) ==
    IF at = "transport" THEN {MAC_LENGTH - 1, MAC_LENGTH}
    ELSE {DHLEN} \cup {NOISE_HANDSHAKE_MSG_LEN(at) + d : d \in {0 - 1, 0, 1}}

\* The relay hands `me` a frame of len bytes of its own making in place of
\* the frames `me` has not read yet.
relay_forge(me, len) ==
    /\ sec[me].pc \in {"message_a", "message_b", "message_c", "transport"}
    /\ sec[me].forged < MaxForged
    /\ len \in ForgedLens(sec[me].pc)
    /\ FrameWaiting(me)
    /\ sec' = [sec EXCEPT ![me].inbox = write_bytes_frame(Payload(len, 0)).out,
                          ![me].forged = @ + 1]
    /\ SecureFrame_

transport_too_large_never(frame_len) == FALSE

\* Line 142.
transport_too_large(frame_len) == frame_len > MAX_FRAME_BYTES

\* Lines 130-153: a call of send(stream, plaintext) by the initiator, with
\* a plaintext of n bytes.
send(n) ==
    /\ sec["i"].pc = "transport"
    /\ sec["i"].calls < MaxCalls
    /\ LET plaintext == Payload(n, 1)
           frame_len == n + MAC_LENGTH
           in_out == send_message(plaintext \o [i \in 1..MAC_LENGTH |-> 0], sec["i"].send_n)
           w == write_bytes_frame(in_out)
           called == [sec EXCEPT !["i"].calls = @ + 1, !["i"].pt_len = n]
       IN  sec' = IF transport_too_large(frame_len)
                  THEN [called EXCEPT !["i"].err = SecErr("transport_message_too_large", n)]
                  ELSE IF w.err # "none"
                  THEN [called EXCEPT !["i"].err = SecErr("protocol", Len(in_out)),
                                      !["i"].send_n = @ + 1]
                  ELSE [called EXCEPT !["i"].err = NoErr,
                                      !["i"].send_n = @ + 1,
                                      !["i"].wrote = Append(@, Len(in_out)),
                                      !["r"].inbox = @ \o w.out]
    /\ SecureFrame_

transport_too_small_never(len) == FALSE

\* Line 160.
transport_too_small(len) == len < MAC_LENGTH

channel_closed_after_error(at) == "failed"

\* Lines 155-166: recv takes &mut self and returns the error; nothing in
\* SecureChannel records that a call failed.
channel_after_error(at) == at

\* Lines 155-166: a call of recv(stream) by the responder that finds a
\* whole frame.
recv ==
    /\ sec["r"].pc = "transport"
    /\ sec["r"].calls < MaxCalls
    /\ FrameWaiting("r")
    /\ LET r == read_bytes_frame(sec["r"].inbox)
           took == [sec EXCEPT !["r"].inbox = SubSeq(@, r.consumed + 1, Len(@)),
                               !["r"].calls = @ + 1]
           called == [took EXCEPT !["r"].recv = Append(@, Len(r.payload))]
           m == recv_message(r.payload, sec["r"].recv_n)
       IN  sec' = IF transport_too_small(Len(r.payload))
                  THEN [took EXCEPT !["r"].err = SecErr("transport_frame_too_small", Len(r.payload)),
                                    !["r"].pc = channel_after_error(@)]
                  ELSE IF ~m.ok
                  THEN [called EXCEPT !["r"].err = SecErr("noise", Len(r.payload)),
                                      !["r"].pc = channel_after_error(@)]
                  ELSE [called EXCEPT !["r"].err = NoErr,
                                      !["r"].recv_n = @ + 1,
                                      !["r"].got = SubSeq(m.out, 1, Len(m.out) - MAC_LENGTH)]
    /\ SecureFrame_

SecureNext ==
    \/ handshake_xx_initiator_start
    \/ \E is_transport \in BOOLEAN : handshake_xx_initiator_read(is_transport)
    \/ \E is_transport \in BOOLEAN : handshake_xx_responder_read(is_transport)
    \/ \E me \in {"i", "r"}, len \in 0..(NOISE_HANDSHAKE_MSG_LEN("message_b") + 1) :
          relay_forge(me, len)
    \/ \E n \in {12, MAX_FRAME_BYTES - MAC_LENGTH, MAX_FRAME_BYTES - MAC_LENGTH + 1} : send(n)
    \/ recv

SecureSpec == Init /\ [][SecureNext]_vars

\* Each handshake function is a task that is polled when the frame it waits
\* for has arrived.
FairSecureSpec ==
    /\ SecureSpec
    /\ WF_vars(handshake_xx_initiator_start)
    /\ WF_vars(\E is_transport \in BOOLEAN : handshake_xx_initiator_read(is_transport))
    /\ WF_vars(\E is_transport \in BOOLEAN : handshake_xx_responder_read(is_transport))


\* C23: the first frame the initiator writes has 32 bytes, the first frame
\* the responder writes has 96, and the second frame the initiator writes
\* has 64.
C23_HandshakeSizes ==
    /\ Len(sec["i"].wrote) >= 1 => sec["i"].wrote[1] = 32
    /\ Len(sec["r"].wrote) >= 1 => sec["r"].wrote[1] = 96
    /\ Len(sec["i"].wrote) >= 2 => sec["i"].wrote[2] = 64

\* The handshake steps at which an end reads a frame.
ReadSteps == {"message_a", "message_b", "message_c"}

Other(me) == IF me = "i" THEN "r" ELSE "i"

\* C24: a handshake read that finds a frame whose length is not the one
\* expected at its step fails with InvalidHandshakeMessageLength naming the
\* step, the expected length and the length found, without passing the
\* frame to recv_message and without writing a frame; a frame of the
\* expected length is passed to recv_message; and an end whose handshake
\* has failed writes no frame and calls recv_message no more.
C24_SizeCheckFirst ==
    [][\A me \in {"i", "r"} :
          /\ (sec[me].pc \in ReadSteps /\ sec'[me].pc # sec[me].pc) =>
                IF Declared(sec[me].inbox) # NOISE_HANDSHAKE_MSG_LEN(sec[me].pc)
                THEN /\ sec'[me].pc = "failed"
                     /\ sec'[me].err = [kind |-> "invalid_handshake_message_length",
                                        step |-> sec[me].pc,
                                        expected |-> NOISE_HANDSHAKE_MSG_LEN(sec[me].pc),
                                        got |-> Declared(sec[me].inbox)]
                     /\ sec'[me].recv = sec[me].recv
                     /\ sec'[me].wrote = sec[me].wrote
                     /\ sec'[Other(me)].inbox = sec[Other(me)].inbox
                ELSE sec'[me].recv = Append(sec[me].recv, Declared(sec[me].inbox))
          /\ sec[me].pc = "failed" =>
                (sec'[me].wrote = sec[me].wrote /\ sec'[me].recv = sec[me].recv)]_vars

\* The responder has taken message A and written message B, then refused
\* the frame of one byte more than message C that the relay put in its
\* place; the initiator is in transport mode.
C24_Witness ==
    /\ sec["r"].pc = "failed" /\ sec["r"].err.step = "message_c"
    /\ sec["r"].err.got = sec["r"].err.expected + 1
    /\ Len(sec["r"].recv) = 1 /\ Len(sec["r"].wrote) = 1
    /\ sec["i"].pc = "transport" /\ Len(sec["i"].wrote) = 2

\* C25: a call of send with more than 65520 plaintext bytes fails with
\* TransportMessageTooLarge, leaving the send nonce and the stream as they
\* were; a call with at most 65520 bytes advances the nonce by one and
\* writes one frame of 16 bytes more than the plaintext; and the frame of a
\* 65520-byte plaintext, 65536 bytes long, is read and returned whole.
C25_SendBound ==
    /\ [][sec'["i"].calls # sec["i"].calls =>
              IF sec'["i"].pt_len > 65520
              THEN /\ sec'["i"].err = SecErr("transport_message_too_large", sec'["i"].pt_len)
                   /\ sec'["i"].send_n = sec["i"].send_n
                   /\ sec'["i"].wrote = sec["i"].wrote
                   /\ sec'["r"].inbox = sec["r"].inbox
              ELSE /\ sec'["i"].err = NoErr
                   /\ sec'["i"].send_n = sec["i"].send_n + 1
                   /\ sec'["i"].wrote = Append(sec["i"].wrote, sec'["i"].pt_len + 16)
                   /\ Len(sec'["r"].inbox) = Len(sec["r"].inbox) + 4 + sec'["i"].pt_len + 16]_vars
    /\ [][(sec'["r"].calls # sec["r"].calls /\ sec["r"].forged = 0
              /\ Declared(sec["r"].inbox) = 65536 /\ sec["r"].recv_n = 0) =>
              (sec'["r"].err = NoErr /\ sec'["r"].got = Payload(65520, 1))]_vars

\* A plaintext of 65521 bytes has been refused, one of 65520 bytes has
\* then been sent under nonce 0, and the responder has read it.
C25_Witness ==
    /\ sec["i"].calls = 2 /\ sec["i"].pt_len = 65520 /\ sec["i"].send_n = 1
    /\ sec["i"].wrote[3] = 65536
    /\ Len(sec["r"].got) = 65520 /\ sec["r"].recv_n = 1

\* C26: a call of recv that reads a frame of fewer than 16 bytes fails with
\* TransportFrameTooSmall without passing the frame to recv_message and
\* without advancing the receive nonce; a call that succeeds has passed the
\* frame to recv_message, advances the nonce by one and returns 16 bytes
\* fewer than the frame has.
C26_RecvBound ==
    [][sec'["r"].calls # sec["r"].calls =>
          IF Declared(sec["r"].inbox) < 16
          THEN /\ sec'["r"].err = SecErr("transport_frame_too_small", Declared(sec["r"].inbox))
               /\ sec'["r"].recv = sec["r"].recv
               /\ sec'["r"].recv_n = sec["r"].recv_n
               /\ sec'["r"].got = sec["r"].got
          ELSE /\ sec'["r"].recv = Append(sec["r"].recv, Declared(sec["r"].inbox))
               /\ sec'["r"].err = NoErr =>
                     /\ Len(sec'["r"].got) = Declared(sec["r"].inbox) - 16
                     /\ sec'["r"].recv_n = sec["r"].recv_n + 1]_vars

\* The responder has returned a 12-byte plaintext from a 28-byte frame and
\* has then refused a frame of 15 bytes.
C26_Witness ==
    /\ sec["r"].calls = 2 /\ sec["r"].recv_n = 1 /\ Len(sec["r"].got) = 12
    /\ sec["r"].err = SecErr("transport_frame_too_small", 15)
    /\ Len(sec["r"].recv) = 3

IdLens == {MIN_ID_LEN - 1, MIN_ID_LEN, MAX_ID_LEN, MAX_ID_LEN + 1}

\* The bytes next to each end of the ranges 0-9, A-Z, a-z and next to '-',
\* '.', '_', with the two bytes JSON escapes and two control characters.
IdBytes == {0, 31, 32, 34, 44, 45, 46, 47, 48, 57, 58, 64, 65, 90, 91, 92, 94, 95, 96,
            97, 122, 123, 127}

\* Strings of a's with byte b at position p, the empty string, and "a"
\* followed by the two-byte character U+00E9.
IdTexts ==
    { [i \in 1..len |-> IF i = p THEN b ELSE 97] :
          len \in IdLens, p \in {1, MAX_ID_LEN + 1}, b \in IdBytes }
    \cup { [i \in 1..len |-> IF i = len THEN b ELSE 97] : len \in IdLens, b \in IdBytes }
    \cup { <<>>, <<97, 195, 169>> }

hex(d) == IF d < 10 THEN 48 + d ELSE 87 + d

unhex(c) == IF c <= 57 THEN c - 48 ELSE IF c <= 70 THEN c - 55 ELSE c - 87

\* serialize_str (lines 77-84) as serde_json writes a string: the bytes
\* between quotes, with '"', '\' and the control characters escaped.
json_escape(b) ==
    IF b = 34 THEN <<92, 34>>
    ELSE IF b = 92 THEN <<92, 92>>
    ELSE IF b = 8 THEN <<92, 98>>
    ELSE IF b = 9 THEN <<92, 116>>
    ELSE IF b = 10 THEN <<92, 110>>
    ELSE IF b = 12 THEN <<92, 102>>
    ELSE IF b = 13 THEN <<92, 114>>
    ELSE IF b < 32 THEN <<92, 117, 48, 48, hex(b \div 16), hex(b % 16)>>
    ELSE <<b>>

RECURSIVE json_string_body(_)
json_string_body(value) ==
    IF value = <<>> THEN <<>>
    ELSE json_escape(Head(value)) \o json_string_body(Tail(value))

json_string(value) == <<34>> \o json_string_body(value) \o <<34>>

\* The string a JSON string body stands for.
RECURSIVE json_unescape(_)
json_unescape(body) ==
    IF body = <<>> THEN <<>>
    ELSE IF body[1] # 92 \/ Len(body) < 2
    THEN <<body[1]>> \o json_unescape(Tail(body))
    ELSE IF body[2] = 117 /\ Len(body) >= 6
    THEN LET c == (unhex(body[3]) * 4096) + (unhex(body[4]) * 256)
                  + (unhex(body[5]) * 16) + unhex(body[6])
         IN  (IF c < 128 THEN <<c>> ELSE <<192 + (c \div 64), 128 + (c % 64)>>)
             \o json_unescape(SubSeq(body, 7, Len(body)))
    ELSE LET c == body[2]
         IN  <<IF c = 98 THEN 8 ELSE IF c = 116 THEN 9 ELSE IF c = 110 THEN 10
               ELSE IF c = 102 THEN 12 ELSE IF c = 114 THEN 13 ELSE c>>
             \o json_unescape(SubSeq(body, 3, Len(body)))

\* Line 91 and line 130, String::deserialize on a JSON value: an error
\* unless the value is a string without raw control characters.
String_deserialize(json) ==
    IF /\ Len(json) >= 2 /\ json[1] = 34 /\ json[Len(json)] = 34
       /\ \A i \in 2..(Len(json) - 1) : json[i] >= 32
    THEN [ok |-> TRUE, value |-> json_unescape(SubSeq(json, 2, Len(json) - 1))]
    ELSE [ok |-> FALSE, value |-> <<>>]

IdFrame_ == UNCHANGED <<serverVars, relayVars, loopVars, driverVars, client, fr, sec, tun>>

\* Lines 60-64 and 102-106: AgentId::new(value), ClientId::new(value).
id_new(kind, value) ==
    /\ idv.via = "none"
    /\ idv' = [kind |-> kind, via |-> "new", text |-> value, is_string |-> TRUE,
               ok |-> validate_id(value),
               id |-> IF validate_id(value) THEN value ELSE NoId, op |-> "none"]
    /\ IdFrame_

\* Lines 86-94 and 125-133: Deserialize for AgentId and ClientId, given the
\* JSON text of a string or the JSON number 1.
id_deserialize(kind, text, is_string) ==
    LET json == IF is_string THEN json_string(text) ELSE <<49>>
        value == String_deserialize(json)
        ok == value.ok /\ validate_id(value.value)
    IN  /\ idv.via = "none"
        /\ idv' = [kind |-> kind, via |-> "deserialize", text |-> text,
                   is_string |-> is_string, ok |-> ok,
                   id |-> IF ok THEN value.value ELSE NoId, op |-> "none"]
        /\ IdFrame_

\* server/src/connection.rs lines 23-35, 85 and 164: a request that parsed
\* reaches handle_agent, which inserts its agent_id, or handle_client, which
\* removes its target_agent_id; one that did not parse is rejected.
registry_use(op) ==
    /\ idv.via = "deserialize"
    /\ idv.kind = "agent"
    /\ idv.ok
    /\ idv.op = "none"
    /\ idv' = [idv EXCEPT !.op = op]
    /\ IdFrame_

IdNext ==
    \/ \E kind \in {"agent", "client"}, value \in IdTexts : id_new(kind, value)
    \/ \E kind \in {"agent", "client"}, text \in IdTexts, is_string \in BOOLEAN :
          id_deserialize(kind, text, is_string)
    \/ \E op \in {"insert", "remove"} : registry_use(op)

IdSpec == Init /\ [][IdNext]_vars

\* The bytes of [A-Za-z0-9._-].
IdAlphabet == (48..57) \cup (65..90) \cup (97..122) \cup {46, 95, 45}

WellFormedId(s) == 3 <= Len(s) /\ Len(s) <= 64 /\ \A i \in 1..Len(s) : s[i] \in IdAlphabet

\* C29: new(s) and the deserialization of the JSON string of s succeed if
\* and only if s has 3 to 64 bytes, all of them ASCII letters, digits, '.',
\* '_' or '-', and then give the id s; deserializing anything but a string
\* fails; and the server inserts into or removes from its registry only an
\* AgentId that satisfies the rule.
C29_IdValidation ==
    /\ idv.via # "none" => (idv.ok <=> (idv.is_string /\ WellFormedId(idv.text)))
    /\ idv.ok => idv.id = idv.text
    /\ idv.op # "none" => (idv.kind = "agent" /\ WellFormedId(idv.id))

\* A 64-byte id ending in '.' has been deserialized and its registry entry
\* removed.
C29_Witness ==
    /\ idv.via = "deserialize" /\ idv.ok /\ idv.op = "remove"
    /\ Len(idv.id) = 64 /\ idv.id[64] = 46


\* ------------------------------------------------------------------ tunnel
\* server/src/connection.rs lines 139-154: handle_agent once it holds both
\* streams.  copy_bidirectional(a, b) copies a to b and b to a, each
\* direction until its reader reports EOF; a direction that reaches EOF
\* shuts down the writer it copied to and is finished; the call returns Ok
\* when both directions are finished and Err as soon as a read, a write or
\* a shutdown fails.
Reverse(d) == IF d = "agent_to_client" THEN "client_to_agent" ELSE "agent_to_client"

splice_finished_either(done) == \E d \in Dir : done[d]

\* Line 140: copy_bidirectional is ready with Ok.
splice_finished(done) == \A d \in Dir : done[d]

\* Lines 140-154: the call has returned; the entry of the agent is removed
\* and handle_agent returns, which drops both streams.
splice_return(t, res) == [t EXCEPT !.result = res, !.streams_open = FALSE, !.entry = FALSE]

TunnelFrame_ == UNCHANGED <<serverVars, relayVars, loopVars, driverVars, client, fr, sec, idv>>

\* The peer at the source of direction d writes one byte.
tun_peer_write(d) ==
    /\ ~tun.fin[d]
    /\ tun.pending[d] + tun.copied[d] < MaxBytes
    /\ tun' = [tun EXCEPT !.pending[d] = @ + 1]
    /\ TunnelFrame_

\* The peer at the source of direction d closes its sending side.
tun_peer_shutdown(d) ==
    /\ ~tun.fin[d]
    /\ tun' = [tun EXCEPT !.fin[d] = TRUE]
    /\ TunnelFrame_

\* One transfer of direction d: a byte read from its source is written to
\* its destination, or the read or the write fails.
tun_copy(d, ok) ==
    /\ tun.result = "none"
    /\ ~tun.done[d]
    /\ tun.pending[d] > 0
    /\ tun' = IF ok
              THEN [tun EXCEPT !.pending[d] = @ - 1, !.copied[d] = @ + 1,
                               !.late = IF tun.done[Reverse(d)] THEN @ + 1 ELSE @]
              ELSE splice_return([tun EXCEPT !.broken = TRUE], "err")
    /\ TunnelFrame_

\* Direction d reads EOF: it shuts down the writer of its destination and
\* is finished.
tun_eof(d, ok) ==
    /\ tun.result = "none"
    /\ ~tun.done[d]
    /\ tun.pending[d] = 0
    /\ tun.fin[d]
    /\ LET t == [tun EXCEPT !.done[d] = TRUE, !.shut[d] = TRUE]
       IN  tun' = IF ~ok THEN splice_return([tun EXCEPT !.broken = TRUE], "err")
                  ELSE IF splice_finished(t.done) THEN splice_return(t, "ok")
                  ELSE t
    /\ TunnelFrame_

TunnelNext ==
    \/ \E d \in Dir : tun_peer_write(d)
    \/ \E d \in Dir : tun_peer_shutdown(d)
    \/ \E d \in Dir, ok \in BOOLEAN : tun_copy(d, ok)
    \/ \E d \in Dir, ok \in BOOLEAN : tun_eof(d, ok)

TunnelSpec == Init /\ [][TunnelNext]_vars

\* C30 as stated: once one direction has reached EOF, no byte is relayed in
\* either direction any more and the handler has closed both connections
\* and returned.
C30_StopsAtFirstClose ==
    (\E d \in Dir : tun.done[d]) => (tun.result # "none" /\ ~tun.streams_open)

\* C30 as amended: a direction that has reached EOF relays nothing more,
\* while the other direction goes on; the call returns Ok only when both
\* ends have closed their sending side and every byte written has been
\* relayed, and with an error as soon as a socket fails; when it has
\* returned the agent's entry is removed, both streams are dropped and
\* nothing more is relayed.
C30_SpliceUntilBothClosed ==
    /\ [](tun.result = "ok" =>
             \A d \in Dir : tun.done[d] /\ tun.fin[d] /\ tun.pending[d] = 0)
    /\ []((tun.result = "none") = tun.streams_open)
    /\ [](tun.result # "none" => ~tun.entry)
    /\ [](tun.result = "err" <=> tun.broken)
    /\ [][\A d \in Dir :
             /\ (tun.done[d] \/ tun.result # "none") => tun'.copied[d] = tun.copied[d]
             /\ (tun.done[d] /\ ~tun.done[Reverse(d)] /\ tun'.copied # tun.copied) =>
                    (tun'.result = "none" /\ tun'.copied[Reverse(d)] = tun.copied[Reverse(d)] + 1)
             /\ tun'.done[d] # tun.done[d] => tun'.shut[d]]_vars

\* The agent has closed its side first; after that a byte of the client
\* has been relayed to the agent, the client has closed, and the call has
\* returned Ok.
C30_Witness ==
    /\ tun.result = "ok"
    /\ tun.copied["agent_to_client"] = 0
    /\ tun.copied["client_to_agent"] = 1
    /\ tun.late = 1

\* ----------------------------------------------------- pairing and registry
\* Agent handlers that own, or are about to receive, the stream of client c.
Owners(c) == {w \in Conn : pc[w] # "done" /\ (rx[w] = c \/ client_stream[w] = c)}

\* C31: a client is sent `accepted` only after it has taken a waiter out of
\* the registry, and its stream is handed to that waiter only after its
\* `accepted` was written; a waiter is handed one stream at most; the
\* stream an agent handler relays is one that was handed to it; the stream
\* is held by its own handler until the hand-off and after it by one agent
\* handler at most; and the step that hands it off is the return of the
\* client handler, after which the server writes no response on it.
C31_PairingOrder ==
    /\ [](\A c \in Conn : IsClient(c) =>
             /\ AcceptedSent(c) => claimed[c] # NoConn
             /\ Cardinality(Owners(c)) <= 1
             /\ Owners(c) # {} => (pc[c] = "done" /\ AcceptedSent(c) /\ Owners(c) = {claimed[c]}))
    /\ [][\A c \in Conn :
             /\ (IsClient(c) /\ AcceptedSent(c)' /\ ~AcceptedSent(c)) =>
                    (agent_waiter[c] # NoConn /\ agents[request[c].agent_id] # agent_waiter[c])
             /\ rx'[c] # rx[c] /\ rx'[c] \in Conn =>
                    /\ rx[c] = NoConn
                    /\ agent_waiter[rx'[c]] = c /\ AcceptedSent(rx'[c])
                    /\ pc[rx'[c]] = "client_handoff" /\ pc'[rx'[c]] = "done"
                    /\ result'[rx'[c]] = "ok"
             /\ client_stream'[c] # client_stream[c] => client_stream'[c] = rx[c]
             /\ pc[c] = "done" => (pc'[c] = "done" /\ attempted'[c] = attempted[c])]_vars

\* A client has been paired: its handler has returned and an agent handler
\* is splicing its stream.
C31_Witness ==
    \E a, c \in Conn :
        /\ pc[a] = "splice" /\ client_stream[a] = c
        /\ IsClient(c) /\ pc[c] = "done" /\ AcceptedSent(c) /\ claimed[c] = a

\* Agent handler w has written `accepted` and is suspended at its select,
\* with no stream handed to it.
WaitingForPairing(w) == IsAgent(w) /\ pc[w] = "agent_select" /\ rx[w] \notin Conn

\* C32: whenever an agent handler is waiting for pairing and no client
\* handler holds its waiter, the registry maps its id to its own waiter.
C32_HealthyAgentKept ==
    \A w \in Conn :
        (WaitingForPairing(w) /\ \A c \in Conn : agent_waiter[c] # w) =>
            agents[request[w].agent_id] = w

\* C33: a step in which an agent handler removes the entry under its id
\* (after a failed accept, a closed channel, early traffic or EOF, or the
\* end of its splice) finds there its own waiter or nothing.
C33_RemovesOwnEntryOnly ==
    [][\A c \in Conn :
          (IsAgent(c) /\ pc[c] \in {"agent_rollback", "agent_remove"} /\ pc'[c] = "done") =>
              agents[request[c].agent_id] \in {c, NoConn}]_vars

\* C34: no two agent handlers with the same id have both been sent
\* `accepted` and are both waiting for pairing with their channel open,
\* whether their waiter is in the registry or in the hands of a client
\* handler.
C34_OneAcceptedAgentPerId ==
    \A a, b \in Conn :
        (/\ WaitingForPairing(a) /\ AcceptedSent(a) /\ rx[a] = NoConn
         /\ WaitingForPairing(b) /\ AcceptedSent(b) /\ rx[b] = NoConn
         /\ request[a].agent_id = request[b].agent_id) => a = b

\* The step in which client handler c finds no entry under its target id.
ClaimFindsNothing(c) ==
    IsClient(c) /\ pc[c] = "client_lock" /\ pc'[c] = "client_send_reject"

\* Agent handlers with id `id` that have been sent `accepted` and wait for
\* pairing with their channel open.
AcceptedWaiting(id) ==
    {w \in Conn : WaitingForPairing(w) /\ AcceptedSent(w) /\ rx[w] = NoConn
                  /\ request[w].agent_id = id}

\* C35 as stated: when a client's claim finds nothing, no accepted agent
\* handler with the target id is waiting for pairing.
C35_UnavailableOnlyIfNoAgent ==
    [][\A c \in Conn : ClaimFindsNothing(c) => AcceptedWaiting(request[c].agent_id) = {}]_vars

\* C35 as amended: rejected{agent_unavailable} is written only by a client
\* handler whose claim found no entry under the target id, and at that
\* moment every accepted agent handler with that id that waits for pairing
\* has its waiter in the hands of another client handler.
C35_UnavailableOnlyIfNoEntry ==
    [][\A c \in Conn :
          /\ (attempted'[c] # attempted[c]
                /\ attempted'[c][Len(attempted'[c])] = Rejected("agent_unavailable")) =>
                 (IsClient(c) /\ pc[c] = "client_send_reject" /\ pre_entry[c] = NoConn)
          /\ ClaimFindsNothing(c) =>
                 /\ agents[request[c].agent_id] = NoConn
                 /\ pre_entry'[c] = NoConn
                 /\ \A w \in AcceptedWaiting(request[c].agent_id) :
                        \E d \in Conn \ {c} : agent_waiter[d] = w]_vars

\* A client is about to be rejected with agent_unavailable while an agent
\* with its target id, accepted and waiting, is held by another client
\* that has not yet written its `accepted`.
C35_Witness ==
    \E c, d, w \in Conn :
        /\ IsClient(c) /\ pc[c] = "client_send_reject"
        /\ pc[d] = "client_send_accept" /\ agent_waiter[d] = w
        /\ w \in AcceptedWaiting(request[c].agent_id)

\* The stream of client c has reached the splice of an agent handler.
Relayed(c) == \E w \in Conn : client_stream[w] = c

\* The handler of client c has returned and no agent handler holds its
\* stream: the stream has been dropped, which closes the connection.
Closed(c) == pc[c] = "done" /\ Owners(c) = {}

\* C36: a client that was sent `accepted` is in the end relayed by an agent
\* handler or closed; it is relayed by one agent handler at most; its
\* handler passes the stream to the waiter it claimed whenever that agent
\* handler has not returned; and a stream in a channel is taken by the
\* splice or dropped with the receiver.
C36_AcceptedClientServed ==
    /\ \A c \in Conn : (IsClient(c) /\ AcceptedSent(c)) ~> (Relayed(c) \/ Closed(c))
    /\ [](\A c \in Conn : Cardinality({w \in Conn : client_stream[w] = c}) <= 1)
    /\ [][\A c \in Conn :
             (pc[c] = "client_handoff" /\ pc'[c] = "done" /\ pc[agent_waiter[c]] # "done") =>
                 rx'[agent_waiter[c]] = c]_vars

\* A client was sent `accepted` and its connection was then closed without
\* having been relayed: the agent handler it was handed to left its select
\* through the probe branch.
C36_Witness ==
    \E c, w \in Conn :
        /\ IsClient(c) /\ AcceptedSent(c) /\ Closed(c) /\ ~Relayed(c)
        /\ rx[w] = c /\ pc[w] = "done" /\ exit_via[w] = "probe"

\* C37: an agent connection is refused with agent_id_in_use only while
\* another agent handler with its id is still running or a client handler
\* is still running; once the earlier connections of the agent have ended
\* and no client is being served, its next attempt is registered.
C37_ReconnectNotRefused ==
    [][\A c \in Conn :
          (pc[c] = "agent_lock" /\ pc'[c] = "agent_send_reject") =>
              \E d \in Conn \ {c} :
                  /\ pc[d] \notin {"idle", "done"}
                  /\ (IsAgent(d) /\ request[d].agent_id = request[c].agent_id) \/ IsClient(d)]_vars

\* The responses of the handshake protocol.
Responses ==
    {Rejected(code) : code \in {"invalid_request", "unsupported_protocol_version",
                                "agent_id_in_use", "agent_unavailable"}}
    \cup {Accepted(sid) : sid \in 1..MaxConn}

HandshakeWrote(me, at) ==
    IF me = "i"
    THEN (IF at = "start" THEN <<>>
          ELSE IF at = "message_b" THEN <<NOISE_HANDSHAKE_MSG_LEN("message_a")>>
          ELSE <<NOISE_HANDSHAKE_MSG_LEN("message_a"), NOISE_HANDSHAKE_MSG_LEN("message_c")>>)
    ELSE (IF at = "message_a" THEN <<>> ELSE <<NOISE_HANDSHAKE_MSG_LEN("message_b")>>)

HandshakeRecv(me, at) ==
    IF me = "i"
    THEN (IF at = "transport" THEN <<NOISE_HANDSHAKE_MSG_LEN("message_b")>> ELSE <<>>)
    ELSE (IF at = "message_a" THEN <<>>
          ELSE IF at = "message_c" THEN <<NOISE_HANDSHAKE_MSG_LEN("message_a")>>
          ELSE <<NOISE_HANDSHAKE_MSG_LEN("message_a"), NOISE_HANDSHAKE_MSG_LEN("message_c")>>)

\* C39: the initiator writes message A, reads B and writes C, the
\* responder reads A, writes B and reads C, each message as one frame;
\* when the relay substitutes nothing, both handshake functions return; a
\* function returns a channel only if its session then reports transport
\* phase and fails with HandshakeIncomplete, after its last message, if it
\* does not; and an end writes a transport frame only after its function
\* has returned a channel.
C39_HandshakeSequencing ==
    /\ [](\A me \in {"i", "r"} :
             /\ sec[me].pc \in {"start", "message_a", "message_b", "message_c"} =>
                    /\ sec[me].wrote = HandshakeWrote(me, sec[me].pc)
                    /\ sec[me].recv = HandshakeRecv(me, sec[me].pc)
             /\ sec[me].pc = "transport" =>
                    /\ sec[me].phase = "transport"
                    /\ IsPrefix(HandshakeWrote(me, "transport"), sec[me].wrote)
                    /\ IsPrefix(HandshakeRecv(me, "transport"), sec[me].recv)
             /\ sec[me].err.kind = "handshake_incomplete" =>
                    /\ sec[me].pc = "failed" /\ sec[me].phase = "handshake"
                    /\ sec[me].wrote = HandshakeWrote(me, "transport")
                    /\ sec[me].recv = HandshakeRecv(me, "transport"))
    /\ [][\A me \in {"i", "r"} :
             sec'[me].wrote # sec[me].wrote =>
                 /\ Len(sec'[me].wrote) = Len(sec[me].wrote) + 1
                 /\ Len(sec'[Other(me)].inbox) =
                        Len(sec[Other(me)].inbox) + 4 + sec'[me].wrote[Len(sec'[me].wrote)]
                 /\ Len(sec[me].wrote) >= Len(HandshakeWrote(me, "transport")) =>
                        sec[me].pc = "transport"]_vars
    /\ <>(\/ \E me \in {"i", "r"} : sec[me].forged > 0
          \/ \A me \in {"i", "r"} : sec[me].pc \in {"transport", "failed"})

\* Both handshake functions have returned a channel, nothing was
\* substituted, and no transport message has been sent yet.
C39_Witness ==
    /\ \A me \in {"i", "r"} :
           sec[me].pc = "transport" /\ sec[me].forged = 0 /\ sec[me].calls = 0
    /\ sec["i"].wrote = <<48, 64>> /\ sec["r"].wrote = <<96>>
    /\ sec["r"].recv = <<48, 64>> /\ sec["i"].recv = <<96>>


====
